---- MODULE Spec2Model ----
(***************************************************************************)
(* The metadata store facade of ml_metadata/metadata_store/                *)
(* metadata_store.cc as a state machine.                                   *)
(*                                                                         *)
(* db    the tables of the storage backend.  Every row carries             *)
(*         tx : 0 when the row is committed, p while it is a write of the  *)
(*              open transaction of caller p,                              *)
(*         by : <<p, n>>, the n-th call of caller p wrote it (<<0, 0>>:    *)
(*              it was there in the initial state).                        *)
(* proc  one record per concurrent caller: the public method it is in, the *)
(*       position inside the method's closure, request, response, locals   *)
(*       and the status the last call returned.  Its fields missed (the    *)
(*       contexts this run looked up and did not find), calls, started and *)
(*       attempt are history only.                                         *)
(* hist  per type key, what the successful Put*Type calls asked for and    *)
(*       returned (history only: no operation reads it).                   *)
(* now   the wall clock in milliseconds.                                   *)
(***************************************************************************)
EXTENDS Integers, Sequences, FiniteSets, TLC

VARIABLES db, proc, hist, now

vars == <<db, proc, hist, now>>

\* The concurrent callers of the store.
Procs == {1, 2, 3}

\* Calls started in one behaviour, retries not counted.
MaxCalls == 2

\* Times one request is run: the first run and the client's re-runs.
MaxAttempts == 2

Tables ==
  {"types", "typeProps", "parentTypes", "artifacts", "executions", "contexts",
   "events", "attributions", "associations", "parentContexts"}

EmptyDb == [t \in Tables |-> {}]

SeqMax(S) == CHOOSE x \in S : \A y \in S : y <= x

----------------------------------------------------------------------------
(* Transaction Executor and the storage views (read committed).            *)

\* The rows of table t that the transaction of p reads: committed rows and
\* its own writes, an own write of a row hiding the committed version.
View(d, p, t) ==
  {r \in d[t] : r.tx = p}
    \cup {r \in d[t] : r.tx = 0 /\ ~\E s \in d[t] : s.tx = p /\ s.id = r.id}

\* The rows every transaction can read.
Committed(d, t) == {r \in d[t] : r.tx = 0}

\* Commit of the transaction of p: its writes replace the committed versions.
Commit(d, p) ==
  [t \in Tables |->
     {[r EXCEPT !.tx = 0] : r \in {x \in d[t] : x.tx = p}}
       \cup {r \in d[t] : r.tx # p /\ ~(r.tx = 0 /\ \E s \in d[t] : s.tx = p /\ s.id = r.id)}]

\* Rollback of the transaction of p: its writes disappear.
Rollback(d, p) == [t \in Tables |-> {r \in d[t] : r.tx # p}]

\* TransactionExecutor::Execute after the closure returned st.
Execute(d, p, st) == IF st = "OK" THEN Commit(d, p) ELSE Rollback(d, p)

\* The call of p that is writing.
By(p) == <<p, proc[p].calls>>

NewId(rows) == IF rows = {} THEN 1 ELSE SeqMax({r.id : r \in rows}) + 1

Ok(d, id) == [st |-> "OK", db |-> d, id |-> id]

Err(st, d) == [st |-> st, db |-> d, id |-> -1]

Insert(d, t, row) == [d EXCEPT ![t] = @ \cup {row}]

----------------------------------------------------------------------------
(* Access Object: artifacts, executions, contexts, events and links.       *)

TypeKindOf ==
  [artifacts |-> "artifact", executions |-> "execution", contexts |-> "context"]

HasType(d, p, t, type_id) ==
  \E ty \in View(d, p, "types") : ty.id = type_id /\ ty.kind = TypeKindOf[t]

\* A write of node n to table t waits while another open transaction holds a
\* write of the same row or of the same unique (type_id, name) key.
NodeWaits(d, p, t, n) ==
  \E r \in d[t] :
    /\ r.tx \notin {0, p}
    /\ \/ r.id \in n.id
       \/ n.name # "" /\ r.type_id = n.type_id /\ r.name = n.name

\* CreateNode without the unique (type_id, name) index.
CreateNodeNoUniqueName(d, p, t, n) ==
  IF ~HasType(d, p, t, n.type_id) THEN Err("INVALID_ARGUMENT", d)
  ELSE IF t = "contexts" /\ n.name = "" THEN Err("INVALID_ARGUMENT", d)
  ELSE LET id == NewId(d[t]) IN
       Ok(Insert(d, t, [id |-> id, type_id |-> n.type_id, name |-> n.name,
                        val |-> n.val, time |-> now, tx |-> p, by |-> By(p)]), id)

\* CreateArtifact / CreateExecution / CreateContext.
CreateNode(d, p, t, n) ==
  IF ~HasType(d, p, t, n.type_id) THEN Err("INVALID_ARGUMENT", d)
  ELSE IF t = "contexts" /\ n.name = "" THEN Err("INVALID_ARGUMENT", d)
  ELSE IF n.name # "" /\ \E r \in View(d, p, t) : r.type_id = n.type_id /\ r.name = n.name
    THEN Err("ALREADY_EXISTS", d)
  ELSE LET id == NewId(d[t]) IN
       Ok(Insert(d, t, [id |-> id, type_id |-> n.type_id, name |-> n.name,
                        val |-> n.val, time |-> now, tx |-> p, by |-> By(p)]), id)

\* UpdateArtifact / UpdateExecution / UpdateContext.
UpdateNode(d, p, t, n) ==
  LET old == {r \in View(d, p, t) : r.id \in n.id} IN
  IF old = {} THEN Err("INVALID_ARGUMENT", d)
  ELSE IF ~HasType(d, p, t, n.type_id) THEN Err("INVALID_ARGUMENT", d)
  ELSE IF n.name # "" /\ \E r \in View(d, p, t) :
                            r.id \notin n.id /\ r.type_id = n.type_id /\ r.name = n.name
    THEN Err("ALREADY_EXISTS", d)
  ELSE LET id == CHOOSE k \in n.id : TRUE IN
       Ok([d EXCEPT ![t] = {r \in @ : ~(r.tx = p /\ r.id = id)}
                             \cup {[id |-> id, type_id |-> n.type_id, name |-> n.name,
                                    val |-> n.val, time |-> now, tx |-> p, by |-> By(p)]}],
          id)

EventWaits(d, p, artifact_id, execution_id) ==
  \E r \in d.events :
    r.tx \notin {0, p} /\ r.artifact_id = artifact_id /\ r.execution_id = execution_id

CreateEvent(d, p, artifact_id, execution_id) ==
  IF \/ ~\E a \in View(d, p, "artifacts") : a.id = artifact_id
     \/ ~\E e \in View(d, p, "executions") : e.id = execution_id
    THEN Err("INVALID_ARGUMENT", d)
  ELSE IF \E r \in View(d, p, "events") :
            r.artifact_id = artifact_id /\ r.execution_id = execution_id
    THEN Err("ALREADY_EXISTS", d)
  ELSE LET id == NewId(d.events) IN
       Ok(Insert(d, "events", [id |-> id, artifact_id |-> artifact_id,
                               execution_id |-> execution_id, tx |-> p, by |-> By(p)]), id)

AssociationWaits(d, p, context_id, execution_id) ==
  \E r \in d.associations :
    r.tx \notin {0, p} /\ r.context_id = context_id /\ r.execution_id = execution_id

CreateAssociation(d, p, context_id, execution_id) ==
  IF \/ ~\E c \in View(d, p, "contexts") : c.id = context_id
     \/ ~\E e \in View(d, p, "executions") : e.id = execution_id
    THEN Err("INVALID_ARGUMENT", d)
  ELSE IF \E r \in View(d, p, "associations") :
            r.context_id = context_id /\ r.execution_id = execution_id
    THEN Err("ALREADY_EXISTS", d)
  ELSE LET id == NewId(d.associations) IN
       Ok(Insert(d, "associations", [id |-> id, context_id |-> context_id,
                                     execution_id |-> execution_id, tx |-> p, by |-> By(p)]), id)

AttributionWaits(d, p, context_id, artifact_id) ==
  \E r \in d.attributions :
    r.tx \notin {0, p} /\ r.context_id = context_id /\ r.artifact_id = artifact_id

\* CreateAttribution that does not look the context and the artifact up.
CreateAttributionUnchecked(d, p, context_id, artifact_id) ==
  IF \E r \in View(d, p, "attributions") :
       r.context_id = context_id /\ r.artifact_id = artifact_id
    THEN Err("ALREADY_EXISTS", d)
  ELSE LET id == NewId(d.attributions) IN
       Ok(Insert(d, "attributions", [id |-> id, context_id |-> context_id,
                                     artifact_id |-> artifact_id, tx |-> p, by |-> By(p)]), id)

CreateAttribution(d, p, context_id, artifact_id) ==
  IF \/ ~\E c \in View(d, p, "contexts") : c.id = context_id
     \/ ~\E a \in View(d, p, "artifacts") : a.id = artifact_id
    THEN Err("INVALID_ARGUMENT", d)
  ELSE IF \E r \in View(d, p, "attributions") :
            r.context_id = context_id /\ r.artifact_id = artifact_id
    THEN Err("ALREADY_EXISTS", d)
  ELSE LET id == NewId(d.attributions) IN
       Ok(Insert(d, "attributions", [id |-> id, context_id |-> context_id,
                                     artifact_id |-> artifact_id, tx |-> p, by |-> By(p)]), id)

ParentContextWaits(d, p, child_id, parent_id) ==
  \E r \in d.parentContexts :
    r.tx \notin {0, p} /\ r.child_id = child_id /\ r.parent_id = parent_id

\* CreateParentContext: both contexts are stored and the pair is unique.
CreateParentContext(d, p, child_id, parent_id) ==
  IF \/ ~\E c \in View(d, p, "contexts") : c.id = child_id
     \/ ~\E c \in View(d, p, "contexts") : c.id = parent_id
    THEN Err("INVALID_ARGUMENT", d)
  ELSE IF \E r \in View(d, p, "parentContexts") :
            r.child_id = child_id /\ r.parent_id = parent_id
    THEN Err("ALREADY_EXISTS", d)
  ELSE LET id == NewId(d.parentContexts) IN
       Ok(Insert(d, "parentContexts", [id |-> id, child_id |-> child_id,
                                       parent_id |-> parent_id, tx |-> p, by |-> By(p)]), id)

\* FindArtifactsById: the stored artifacts with that id (none: NOT_FOUND).
FindArtifactsById(d, p, id) == {r \in View(d, p, "artifacts") : r.id = id}

\* FindContextByTypeIdAndContextName: the ids of the matching contexts.
FindContextByTypeIdAndContextName(d, p, type_id, name) ==
  {c.id : c \in {r \in View(d, p, "contexts") : r.type_id = type_id /\ r.name = name}}

----------------------------------------------------------------------------
(* Entity upsert helpers.                                                  *)

UpsertArtifact(d, p, artifact) ==
  IF artifact.id # {} THEN UpdateNode(d, p, "artifacts", artifact)
  ELSE CreateNode(d, p, "artifacts", artifact)

UpsertExecution(d, p, execution) ==
  IF execution.id # {} THEN UpdateNode(d, p, "executions", execution)
  ELSE CreateNode(d, p, "executions", execution)

UpsertContext(d, p, context) ==
  IF context.id # {} THEN UpdateNode(d, p, "contexts", context)
  ELSE CreateNode(d, p, "contexts", context)

\* InsertAssociationIfNotExist that returns whatever CreateAssociation returns.
InsertAssociationStrict(d, p, context_id, execution_id) ==
  CreateAssociation(d, p, context_id, execution_id)

InsertAssociationIfNotExist(d, p, context_id, execution_id) ==
  LET r == CreateAssociation(d, p, context_id, execution_id) IN
  IF r.st # "OK" /\ r.st # "ALREADY_EXISTS" THEN r ELSE Ok(r.db, r.id)

InsertAttributionIfNotExist(d, p, context_id, artifact_id) ==
  LET r == CreateAttribution(d, p, context_id, artifact_id) IN
  IF r.st # "OK" /\ r.st # "ALREADY_EXISTS" THEN r ELSE Ok(r.db, r.id)

----------------------------------------------------------------------------
(* Access Object: types.                                                   *)

\* The property map of the stored type type_id, as the transaction of p reads it.
PropertiesOf(d, p, type_id) ==
  LET rows == {r \in View(d, p, "typeProps") : r.type_id = type_id} IN
  [n \in {r.name : r \in rows} |-> (CHOOSE r \in rows : r.name = n).ptype]

StoredType(d, p, row) ==
  [id |-> row.id, name |-> row.name, version |-> row.version,
   properties |-> PropertiesOf(d, p, row.id)]

\* FindTypeByNameAndVersion: the stored types of the kind with that name and
\* version (none: NOT_FOUND).
FindTypeByNameAndVersion(d, p, kind, name, version) ==
  {StoredType(d, p, row) :
     row \in {r \in View(d, p, "types") :
                r.kind = kind /\ r.name = name /\ r.version = version}}

RECURSIVE InsertProperties(_, _, _, _, _)
InsertProperties(d, p, type_id, properties, names) ==
  IF names = {} THEN d
  ELSE LET n == CHOOSE x \in names : TRUE
           row == [id |-> NewId(d.typeProps), type_id |-> type_id, name |-> n,
                   ptype |-> properties[n], tx |-> p, by |-> By(p)]
       IN InsertProperties(Insert(d, "typeProps", row), p, type_id, properties, names \ {n})

\* CreateType: the table has no unique index on (name, version, kind).
CreateType(d, p, kind, type) ==
  IF type.name = "" THEN Err("INVALID_ARGUMENT", d)
  ELSE LET id == NewId(d.types)
           row == [id |-> id, kind |-> kind, name |-> type.name, version |-> type.version,
                   tx |-> p, by |-> By(p)]
       IN Ok(InsertProperties(Insert(d, "types", row), p, id, type.properties,
                              DOMAIN type.properties), id)

\* A write of a property of the type waits while another open transaction
\* holds a write of the same (type_id, name).
UpdateTypeWaits(d, p, type) ==
  \E r \in d.typeProps :
    r.tx \notin {0, p} /\ r.type_id = type.id /\ r.name \in DOMAIN type.properties

\* UpdateType that rewrites a stored property whose kind differs.
UpdateTypeOverwriting(d, p, type) ==
  LET stored == {r \in View(d, p, "typeProps") : r.type_id = type.id}
      kept == {r \in stored : r.name \in DOMAIN type.properties}
      rewritten == {[r EXCEPT !.ptype = type.properties[r.name], !.tx = p, !.by = By(p)] :
                      r \in {x \in kept : x.ptype # type.properties[x.name]}}
  IN Ok(InsertProperties([d EXCEPT !.typeProps = {r \in @ : ~(r.tx = p /\ r \in kept)}
                                                   \cup rewritten],
                         p, type.id, type.properties,
                         DOMAIN type.properties \ {r.name : r \in stored}), type.id)

\* UpdateType: adds the properties of type that the stored type lacks; a
\* stored property is never removed, and one of another kind is refused.
UpdateType(d, p, type) ==
  LET stored == PropertiesOf(d, p, type.id) IN
  IF ~\E r \in View(d, p, "types") : r.id = type.id THEN Err("INVALID_ARGUMENT", d)
  ELSE IF \E n \in DOMAIN type.properties \cap DOMAIN stored : stored[n] # type.properties[n]
    THEN Err("ALREADY_EXISTS", d)
  ELSE Ok(InsertProperties(d, p, type.id, type.properties,
                           DOMAIN type.properties \ DOMAIN stored), type.id)

\* FindParentTypesByTypeId: the stored parent types of type_id.
FindParentTypesByTypeId(d, p, type_id) ==
  {StoredType(d, p, row) :
     row \in {r \in View(d, p, "types") :
                \E l \in View(d, p, "parentTypes") :
                  l.type_id = type_id /\ l.parent_type_id = r.id}}

ParentLinkWaits(d, p, type_id) ==
  \E r \in d.parentTypes : r.tx \notin {0, p} /\ r.type_id = type_id

\* CreateParentTypeInheritanceLink: the link (type_id, parent) is unique.
CreateParentTypeInheritanceLink(d, p, type_id, parent_type_id) ==
  IF \E r \in View(d, p, "parentTypes") :
       r.type_id = type_id /\ r.parent_type_id = parent_type_id
    THEN Err("ALREADY_EXISTS", d)
  ELSE LET id == NewId(d.parentTypes) IN
       Ok(Insert(d, "parentTypes", [id |-> id, type_id |-> type_id,
                                    parent_type_id |-> parent_type_id,
                                    tx |-> p, by |-> By(p)]), id)

\* GetSystemTypeExtension: the name of the simple type a base_type stands for.
SystemTypeName ==
  [MODEL |-> "mlmd.Model", DATASET |-> "mlmd.Dataset", TRAIN |-> "mlmd.Train"]

NoProperties == [n \in {} |-> "INT"]

Type(name, version, properties, base_type) ==
  [name |-> name, version |-> version, properties |-> properties, base_type |-> base_type]

\* LoadSimpleTypes: the catalog of simple types.
SimpleTypes ==
  [artifact_types |-> <<Type("mlmd.Model", "", NoProperties, "")>>,
   execution_types |-> <<Type("mlmd.Train", "", NoProperties, "")>>,
   context_types |-> <<>>]

----------------------------------------------------------------------------
(* Type consistency checker and type upsert engine.                        *)

Size(f) == Cardinality(DOMAIN f)

\* CheckFieldsConsistent that lets the given type omit stored properties
\* whatever can_omit_fields says.
CheckFieldsConsistentOmitAllowed(stored_type, other_type, can_add_fields, can_omit_fields) ==
  LET S == stored_type.properties
      T == other_type.properties
      omitted_fields_count == Cardinality({k \in DOMAIN S : k \notin DOMAIN T})
  IN
  IF stored_type.name # other_type.name
    THEN [st |-> "FAILED_PRECONDITION", output_type |-> stored_type]
  ELSE IF \E k \in DOMAIN S : k \in DOMAIN T /\ T[k] # S[k]
    THEN [st |-> "FAILED_PRECONDITION", output_type |-> stored_type]
  ELSE IF Size(S) - omitted_fields_count = Size(T)
    THEN [st |-> "OK", output_type |-> stored_type]
  ELSE IF ~can_add_fields
    THEN [st |-> "FAILED_PRECONDITION", output_type |-> stored_type]
  ELSE [st |-> "OK",
        output_type |->
          [stored_type EXCEPT
             !.properties = [k \in DOMAIN S \cup DOMAIN T |->
                               IF k \in DOMAIN S THEN S[k] ELSE T[k]]]]

\* CheckFieldsConsistent that never adds the new properties to output_type.
CheckFieldsConsistentNoMerge(stored_type, other_type, can_add_fields, can_omit_fields) ==
  LET S == stored_type.properties
      T == other_type.properties
      omitted_fields_count == Cardinality({k \in DOMAIN S : k \notin DOMAIN T})
  IN
  IF stored_type.name # other_type.name
    THEN [st |-> "FAILED_PRECONDITION", output_type |-> stored_type]
  ELSE IF \/ \E k \in DOMAIN S : k \in DOMAIN T /\ T[k] # S[k]
          \/ omitted_fields_count > 0 /\ ~can_omit_fields
    THEN [st |-> "FAILED_PRECONDITION", output_type |-> stored_type]
  ELSE IF Size(S) - omitted_fields_count = Size(T)
    THEN [st |-> "OK", output_type |-> stored_type]
  ELSE IF ~can_add_fields
    THEN [st |-> "FAILED_PRECONDITION", output_type |-> stored_type]
  ELSE [st |-> "OK", output_type |-> stored_type]

CheckFieldsConsistent(stored_type, other_type, can_add_fields, can_omit_fields) ==
  LET S == stored_type.properties
      T == other_type.properties
      omitted_fields_count == Cardinality({k \in DOMAIN S : k \notin DOMAIN T})
  IN
  IF stored_type.name # other_type.name
    THEN [st |-> "FAILED_PRECONDITION", output_type |-> stored_type]
  ELSE IF \/ \E k \in DOMAIN S : k \in DOMAIN T /\ T[k] # S[k]
          \/ omitted_fields_count > 0 /\ ~can_omit_fields
    THEN [st |-> "FAILED_PRECONDITION", output_type |-> stored_type]
  ELSE IF Size(S) - omitted_fields_count = Size(T)
    THEN [st |-> "OK", output_type |-> stored_type]
  ELSE IF ~can_add_fields
    THEN [st |-> "FAILED_PRECONDITION", output_type |-> stored_type]
  ELSE [st |-> "OK",
        output_type |->
          [stored_type EXCEPT
             !.properties = [k \in DOMAIN S \cup DOMAIN T |->
                               IF k \in DOMAIN S THEN S[k] ELSE T[k]]]]

Tagged(kind, types) == [k \in 1..Len(types) |-> [kind |-> kind, type |-> types[k]]]

\* UpsertTypes: the types of the request in the order they are upserted.
TypeItems(req) ==
  Tagged("artifact", req.artifact_types)
    \o Tagged("execution", req.execution_types)
    \o Tagged("context", req.context_types)

----------------------------------------------------------------------------
(* Callers and the closure protocol.                                       *)

Idle ==
  [op |-> "none", pc |-> "idle", req |-> <<>>, resp |-> <<>>, status |-> "NONE",
   i |-> 0, j |-> 0, context_id |-> -1, loc |-> <<>>, missed |-> {}, calls |-> 0,
   started |-> 0, attempt |-> 0, transactions |-> 0]

\* ClosureEnds with PutExecution upserting its execution in a transaction of
\* its own.
ClosureEndsAfterExecution(op, pc) ==
  \/ op \in {"InitMetadataStore", "InitMetadataStoreIfNotExists"} /\ pc = "init_source"
  \/ op = "PutExecution" /\ pc = "PE_execution"

\* ClosureEnds with a batch write running every element in a transaction
\* of its own.
ClosureEndsAfterElement(op, pc) ==
  \/ op \in {"InitMetadataStore", "InitMetadataStoreIfNotExists"} /\ pc = "init_source"
  \/ op \in {"PutTypes", "PutArtifacts", "PutExecutions", "PutContexts", "PutEvents",
              "PutAttributionsAndAssociations", "PutParentContexts"}

\* The labels at which a public method ends one Execute call and opens the
\* next: the two Init methods run two closures, every other method runs one.
ClosureEnds(op, pc) ==
  op \in {"InitMetadataStore", "InitMetadataStoreIfNotExists"} /\ pc = "init_source"

\* The closure of p goes on: d is the store after this step, pr the caller.
\* Where one Execute call ends, the method opens its next transaction.
Goto(p, d, pr) ==
  /\ db' = IF ClosureEnds(proc[p].op, proc[p].pc) THEN Commit(d, p) ELSE d
  /\ proc' = [proc EXCEPT ![p] = IF ClosureEnds(proc[p].op, proc[p].pc)
                                    THEN [pr EXCEPT !.transactions = @ + 1]
                                    ELSE pr]
  /\ UNCHANGED <<hist, now>>

\* Fail with the executor keeping the writes of the closure.
FailCommitting(p, st) ==
  /\ db' = Commit(db, p)
  /\ proc' = [proc EXCEPT ![p].pc = "done", ![p].status = st]
  /\ UNCHANGED <<hist, now>>

\* The closure of p returns the error st: the executor rolls back and the
\* public method returns st.
Fail(p, st) ==
  /\ db' = Execute(db, p, st)
  /\ proc' = [proc EXCEPT ![p].pc = "done", ![p].status = st]
  /\ UNCHANGED <<hist, now>>

RECURSIVE Sum(_, _)
Sum(f, S) == IF S = {} THEN 0 ELSE LET x == CHOOSE y \in S : TRUE IN f[x] + Sum(f, S \ {x})

\* A caller may start a call when it is in none and the behaviour has calls left.
CanCall(p) ==
  /\ proc[p].pc \in {"idle", "done"}
  /\ Sum([q \in Procs |-> proc[q].started], Procs) < MaxCalls

\* The caller after the entry of a public method: it is inside its first
\* Execute call.
Started(p, op, pc, req, resp) ==
  [op |-> op, pc |-> pc, req |-> req, resp |-> resp, status |-> "NONE",
   i |-> 1, j |-> 1, context_id |-> -1, loc |-> <<>>, missed |-> {},
   calls |-> proc[p].calls + 1,
   started |-> proc[p].started + 1, attempt |-> 1, transactions |-> 1]

----------------------------------------------------------------------------
(* PutExecution.                                                           *)

UpsertArtifactAndEvent(d, p, ae, execution_id) ==
  IF ~ae.has_artifact /\ ~ae.has_event THEN Ok(d, -1)
  ELSE
    LET maybe_event_artifact_id == IF ae.has_event THEN ae.event.artifact_id ELSE {}
        maybe_artifact_id == IF ae.has_artifact THEN ae.artifact.id ELSE {}
    IN
    IF ~ae.has_artifact /\ maybe_event_artifact_id = {} THEN Err("INVALID_ARGUMENT", d)
    ELSE IF /\ ae.has_artifact
            /\ maybe_event_artifact_id # {}
            /\ maybe_artifact_id # maybe_event_artifact_id
      THEN Err("INVALID_ARGUMENT", d)
    ELSE
      LET a == IF ae.has_artifact THEN UpsertArtifact(d, p, ae.artifact) ELSE Ok(d, -1) IN
      IF a.st # "OK" \/ ~ae.has_event THEN a
      ELSE
        LET artifact_id == IF ae.has_artifact THEN a.id
                           ELSE CHOOSE k \in ae.event.artifact_id : TRUE
            e == CreateEvent(a.db, p, artifact_id, execution_id)
        IN IF e.st # "OK" THEN e ELSE Ok(e.db, artifact_id)

\* The writes of UpsertArtifactAndEvent that wait for another transaction.
ArtifactAndEventWaits(d, p, ae, execution_id) ==
  \/ ae.has_artifact /\ NodeWaits(d, p, "artifacts", ae.artifact)
  \/ /\ ae.has_event
     /\ \E k \in (IF ae.has_artifact THEN ae.artifact.id ELSE ae.event.artifact_id) :
          EventWaits(d, p, k, execution_id)

\* EventExecutionMismatch that lets every event.execution_id pass.
EventExecutionMismatchNever(execution, ae) == FALSE

\* The event of a pair names another execution than the request's.
EventExecutionMismatch(execution, ae) ==
  /\ ae.has_event
  /\ ae.event.execution_id # {}
  /\ (execution.id = {} \/ execution.id # ae.event.execution_id)

\* InsertAttributions for the first artifact id only.
InsertAttributionsFirstOnly(d, p, context_id, artifact_ids) ==
  IF artifact_ids = <<>> THEN Ok(d, -1)
  ELSE InsertAttributionIfNotExist(d, p, context_id, Head(artifact_ids))

RECURSIVE InsertAttributions(_, _, _, _)
InsertAttributions(d, p, context_id, artifact_ids) ==
  IF artifact_ids = <<>> THEN Ok(d, -1)
  ELSE LET r == InsertAttributionIfNotExist(d, p, context_id, Head(artifact_ids)) IN
       IF r.st # "OK" THEN r
       ELSE InsertAttributions(r.db, p, context_id, Tail(artifact_ids))

\* TriesReuse that never looks the context up.
TriesReuseNever(req, context) == FALSE

\* PutExecution looks the context up before it upserts it.
TriesReuse(req, context) == req.reuse_context_if_already_exist /\ context.id = {}

\* Where the closure of PutExecution goes on for context number j.
ContextLabel(req, j) ==
  IF j > Len(req.contexts) THEN "commit"
  ELSE IF TriesReuse(req, req.contexts[j]) THEN "PE_context"
  ELSE "PE_ctx_upsert"

PairLabel(req, i) ==
  IF i > Len(req.artifact_event_pairs) THEN ContextLabel(req, 1) ELSE "PE_pair"

ClearedPutExecutionResponse ==
  [execution_id |-> 0, artifact_ids |-> <<>>, context_ids |-> <<>>]

\* 1. Upsert Execution.
PE_Execution(p) ==
  /\ proc[p].op = "PutExecution" /\ proc[p].pc = "PE_execution"
  /\ LET req == proc[p].req IN
     IF ~req.has_execution THEN Fail(p, "INVALID_ARGUMENT")
     ELSE
       /\ ~NodeWaits(db, p, "executions", req.execution)
       /\ LET r == UpsertExecution(db, p, req.execution) IN
          IF r.st # "OK" THEN Fail(p, r.st)
          ELSE Goto(p, r.db, [proc[p] EXCEPT !.resp.execution_id = r.id,
                                             !.pc = PairLabel(req, 1)])

\* 2. Upsert Artifacts and insert events: pair number i.
PE_Pair(p) ==
  /\ proc[p].op = "PutExecution" /\ proc[p].pc = "PE_pair"
  /\ LET req == proc[p].req
         ae == req.artifact_event_pairs[proc[p].i]
         execution_id == proc[p].resp.execution_id
     IN
     IF EventExecutionMismatch(req.execution, ae) THEN Fail(p, "INVALID_ARGUMENT")
     ELSE
       /\ ~ArtifactAndEventWaits(db, p, ae, execution_id)
       /\ LET r == UpsertArtifactAndEvent(db, p, ae, execution_id) IN
          IF r.st # "OK" THEN Fail(p, r.st)
          ELSE Goto(p, r.db, [proc[p] EXCEPT !.resp.artifact_ids = Append(@, r.id),
                                             !.i = @ + 1,
                                             !.pc = PairLabel(req, proc[p].i + 1)])

\* PE_Context that updates the context it found with the fields of the request.
PE_ContextRefreshes(p) ==
  /\ proc[p].op = "PutExecution" /\ proc[p].pc = "PE_context"
  /\ LET context == proc[p].req.contexts[proc[p].j]
         found == FindContextByTypeIdAndContextName(db, p, context.type_id, context.name)
     IN
     IF found = {}
       THEN Goto(p, db, [proc[p] EXCEPT !.context_id = -1,
                                        !.missed = @ \cup {<<context.type_id, context.name>>},
                                        !.pc = "PE_ctx_upsert"])
     ELSE \E id \in found :
            Goto(p, UpdateNode(db, p, "contexts", [context EXCEPT !.id = {id}]).db,
                 [proc[p] EXCEPT !.context_id = id, !.pc = "PE_links"])

\* 3. Try to reuse the existing context number j.
PE_Context(p) ==
  /\ proc[p].op = "PutExecution" /\ proc[p].pc = "PE_context"
  /\ LET context == proc[p].req.contexts[proc[p].j]
         found == FindContextByTypeIdAndContextName(db, p, context.type_id, context.name)
     IN
     IF found = {}
       THEN Goto(p, db, [proc[p] EXCEPT !.context_id = -1,
                                        !.missed = @ \cup {<<context.type_id, context.name>>},
                                        !.pc = "PE_ctx_upsert"])
     ELSE \E id \in found :
            Goto(p, db, [proc[p] EXCEPT !.context_id = id, !.pc = "PE_links"])

\* ContextUpsertStatus without the conversion of the race into ABORTED.
ContextUpsertStatusAsIs(req, st) == st

\* What PutExecution returns when UpsertContext returned st.
ContextUpsertStatus(req, st) ==
  IF req.reuse_context_if_already_exist /\ st = "ALREADY_EXISTS" THEN "ABORTED" ELSE st

\* 3. Upsert context number j.
PE_CtxUpsert(p) ==
  /\ proc[p].op = "PutExecution" /\ proc[p].pc = "PE_ctx_upsert"
  /\ LET req == proc[p].req
         context == req.contexts[proc[p].j]
     IN
     /\ ~NodeWaits(db, p, "contexts", context)
     /\ LET r == UpsertContext(db, p, context) IN
        IF r.st # "OK" THEN Fail(p, ContextUpsertStatus(req, r.st))
        ELSE Goto(p, r.db, [proc[p] EXCEPT !.context_id = r.id, !.pc = "PE_links"])

LinksWait(d, p, context_id, execution_id, artifact_ids) ==
  \/ AssociationWaits(d, p, context_id, execution_id)
  \/ \E k \in 1..Len(artifact_ids) : AttributionWaits(d, p, context_id, artifact_ids[k])

\* 3. Insert the association and the attributions of context number j.
PE_Links(p) ==
  /\ proc[p].op = "PutExecution" /\ proc[p].pc = "PE_links"
  /\ LET req == proc[p].req
         resp == [proc[p].resp EXCEPT !.context_ids = Append(@, proc[p].context_id)]
     IN
     /\ ~LinksWait(db, p, proc[p].context_id, resp.execution_id, resp.artifact_ids)
     /\ LET a == InsertAssociationIfNotExist(db, p, proc[p].context_id, resp.execution_id) IN
        IF a.st # "OK" THEN Fail(p, a.st)
        ELSE LET t == InsertAttributions(a.db, p, proc[p].context_id, resp.artifact_ids) IN
             IF t.st # "OK" THEN Fail(p, t.st)
             ELSE Goto(p, t.db, [proc[p] EXCEPT !.resp = resp,
                                                !.j = @ + 1,
                                                !.context_id = -1,
                                                !.pc = ContextLabel(req, proc[p].j + 1)])

PutTypeOps == {"PutArtifactType", "PutExecutionType", "PutContextType"}

\* The closure of p returned OK: the executor commits.
TxCommit(p) ==
  /\ proc[p].pc = "commit"
  /\ db' = Execute(db, p, "OK")
  /\ proc' = [proc EXCEPT ![p].pc = "done", ![p].status = "OK"]
  /\ hist' = IF proc[p].op \in PutTypeOps
               THEN Append(hist, [op |-> proc[p].op, req |-> proc[p].req,
                                  type_id |-> proc[p].resp.type_ids[1]])
               ELSE hist
  /\ UNCHANGED now

----------------------------------------------------------------------------
(* UpsertType, step by step, for item number i of UpsertTypes.  PutTypes,  *)
(* Put{Artifact,Execution,Context}Type and the seeding of the simple types *)
(* all run it; resp.type_ids holds the ids in the order of TypeItems.      *)

IsTypeOp(p) ==
  proc[p].op \in PutTypeOps \cup {"PutTypes", "InitMetadataStore", "InitMetadataStoreIfNotExists"}

\* Where the closure goes on when item number i is done.
TypeItemLabel(req, i) == IF i > Len(TypeItems(req)) THEN "commit" ELSE "UT_find"

\* Item number i is upserted with id type_id.
TypeItemDone(p, d, type_id) ==
  Goto(p, d, [proc[p] EXCEPT !.resp.type_ids = Append(@, type_id),
                             !.i = @ + 1,
                             !.loc = <<>>,
                             !.pc = TypeItemLabel(proc[p].req, proc[p].i + 1)])

\* After CreateType or UpdateType: UpsertTypeInheritanceLink, a no-op for a
\* type without base_type.
AfterTypeWrite(p, d, type, type_id) ==
  IF type.base_type = "" THEN TypeItemDone(p, d, type_id)
  ELSE Goto(p, d, [proc[p] EXCEPT !.loc = [type_id |-> type_id], !.pc = "UT_link"])

\* UT_Find that refuses a type that is not stored when can_add_fields is false.
UT_FindNeedsAdd(p) ==
  /\ IsTypeOp(p) /\ proc[p].pc = "UT_find"
  /\ LET req == proc[p].req
         item == TypeItems(req)[proc[p].i]
         found == FindTypeByNameAndVersion(db, p, item.kind, item.type.name, item.type.version)
     IN
     IF found = {} /\ ~req.can_add_fields THEN Fail(p, "ALREADY_EXISTS")
     ELSE IF found = {} THEN Goto(p, db, [proc[p] EXCEPT !.pc = "UT_create"])
     ELSE \E stored_type \in found :
            LET check == CheckFieldsConsistent(stored_type, item.type,
                                               req.can_add_fields, req.can_omit_fields)
            IN IF check.st # "OK" THEN Fail(p, "ALREADY_EXISTS")
               ELSE Goto(p, db, [proc[p] EXCEPT !.loc = [type_id |-> stored_type.id,
                                                        output_type |-> check.output_type],
                                                !.pc = "UT_update"])

\* FindTypeByNameAndVersion, and CheckFieldsConsistent when the type is stored.
UT_Find(p) ==
  /\ IsTypeOp(p) /\ proc[p].pc = "UT_find"
  /\ LET req == proc[p].req
         item == TypeItems(req)[proc[p].i]
         found == FindTypeByNameAndVersion(db, p, item.kind, item.type.name, item.type.version)
     IN
     IF found = {} THEN Goto(p, db, [proc[p] EXCEPT !.pc = "UT_create"])
     ELSE \E stored_type \in found :
            LET check == CheckFieldsConsistent(stored_type, item.type,
                                               req.can_add_fields, req.can_omit_fields)
            IN IF check.st # "OK" THEN Fail(p, "ALREADY_EXISTS")
               ELSE Goto(p, db, [proc[p] EXCEPT !.loc = [type_id |-> stored_type.id,
                                                        output_type |-> check.output_type],
                                                !.pc = "UT_update"])

UT_Create(p) ==
  /\ IsTypeOp(p) /\ proc[p].pc = "UT_create"
  /\ LET item == TypeItems(proc[p].req)[proc[p].i]
         r == CreateType(db, p, item.kind, item.type)
     IN IF r.st # "OK" THEN Fail(p, r.st)
        ELSE AfterTypeWrite(p, r.db, item.type, r.id)

UT_Update(p) ==
  /\ IsTypeOp(p) /\ proc[p].pc = "UT_update"
  /\ ~UpdateTypeWaits(db, p, proc[p].loc.output_type)
  /\ LET item == TypeItems(proc[p].req)[proc[p].i]
         r == UpdateType(db, p, proc[p].loc.output_type)
     IN IF r.st # "OK" THEN Fail(p, r.st)
        ELSE AfterTypeWrite(p, r.db, item.type, proc[p].loc.type_id)

\* UT_Link that takes the base type UNSET for no base type.
UT_LinkUnsetIgnored(p) ==
  /\ IsTypeOp(p) /\ proc[p].pc = "UT_link"
  /\ LET item == TypeItems(proc[p].req)[proc[p].i]
         type_id == proc[p].loc.type_id
         output_parent_types == FindParentTypesByTypeId(db, p, type_id)
     IN
     IF item.type.base_type = "UNSET" THEN TypeItemDone(p, db, type_id)
     ELSE IF Cardinality(output_parent_types) > 1 THEN Fail(p, "FAILED_PRECONDITION")
     ELSE IF output_parent_types = {}
       THEN Goto(p, db, [proc[p] EXCEPT !.pc = "UT_link_create"])
     ELSE IF \E t \in output_parent_types : t.name # SystemTypeName[item.type.base_type]
       THEN Fail(p, "UNIMPLEMENTED")
     ELSE TypeItemDone(p, db, type_id)

\* UT_Link that takes every type for one without a parent.
UT_LinkAlwaysCreates(p) ==
  /\ IsTypeOp(p) /\ proc[p].pc = "UT_link"
  /\ LET item == TypeItems(proc[p].req)[proc[p].i] IN
     IF item.type.base_type = "UNSET" THEN Fail(p, "UNIMPLEMENTED")
     ELSE Goto(p, db, [proc[p] EXCEPT !.pc = "UT_link_create"])

\* UpsertTypeInheritanceLink up to FindParentTypesByTypeId.
UT_Link(p) ==
  /\ IsTypeOp(p) /\ proc[p].pc = "UT_link"
  /\ LET item == TypeItems(proc[p].req)[proc[p].i]
         type_id == proc[p].loc.type_id
         output_parent_types == FindParentTypesByTypeId(db, p, type_id)
     IN
     IF item.type.base_type = "UNSET" THEN Fail(p, "UNIMPLEMENTED")
     ELSE IF Cardinality(output_parent_types) > 1 THEN Fail(p, "FAILED_PRECONDITION")
     ELSE IF output_parent_types = {}
       THEN Goto(p, db, [proc[p] EXCEPT !.pc = "UT_link_create"])
     ELSE IF \E t \in output_parent_types : t.name # SystemTypeName[item.type.base_type]
       THEN Fail(p, "UNIMPLEMENTED")
     ELSE TypeItemDone(p, db, type_id)

\* UpsertTypeInheritanceLink without a parent: find the base type, link it.
UT_LinkCreate(p) ==
  /\ IsTypeOp(p) /\ proc[p].pc = "UT_link_create"
  /\ ~ParentLinkWaits(db, p, proc[p].loc.type_id)
  /\ LET item == TypeItems(proc[p].req)[proc[p].i]
         type_id == proc[p].loc.type_id
         base == FindTypeByNameAndVersion(db, p, item.kind,
                                          SystemTypeName[item.type.base_type], "")
     IN
     IF base = {} THEN Fail(p, "NOT_FOUND")
     ELSE \E base_type \in base :
            LET r == CreateParentTypeInheritanceLink(db, p, type_id, base_type.id) IN
            IF r.st # "OK" THEN Fail(p, r.st)
            ELSE TypeItemDone(p, r.db, type_id)

\* InitMetadataSource / InitMetadataSourceIfNotExists in the first closure;
\* the second closure upserts the simple types.
Init_Source(p) ==
  /\ proc[p].op \in {"InitMetadataStore", "InitMetadataStoreIfNotExists"}
  /\ proc[p].pc = "init_source"
  /\ Goto(p, db, [proc[p] EXCEPT !.pc = TypeItemLabel(proc[p].req, 1)])

----------------------------------------------------------------------------
(* PutContexts.                                                            *)

ItemLabel(items, i) == IF i > Len(items) THEN "commit" ELSE "item"

PutContexts_Item(p) ==
  /\ proc[p].op = "PutContexts" /\ proc[p].pc = "item"
  /\ LET context == proc[p].req.contexts[proc[p].i] IN
     /\ ~NodeWaits(db, p, "contexts", context)
     /\ LET r == UpsertContext(db, p, context) IN
        IF r.st # "OK" THEN Fail(p, r.st)
        ELSE Goto(p, r.db, [proc[p] EXCEPT !.resp.context_ids = Append(@, r.id),
                                           !.i = @ + 1,
                                           !.pc = ItemLabel(proc[p].req.contexts, proc[p].i + 1)])

----------------------------------------------------------------------------
(* PutArtifacts, PutExecutions, PutEvents, PutAttributionsAndAssociations  *)
(* and PutParentContexts.                                                  *)

\* The clock value the model stops at.
MaxTime == 3

\* ArtifactLabel that never asks for the check.
ArtifactLabelUnchecked(req, i) ==
  IF i > Len(req.artifacts) THEN "commit" ELSE "PA_upsert"

\* Where PutArtifacts goes on with artifact number i: the check of
\* last_update_time_since_epoch comes first for an artifact with id when the
\* request asks for it.
ArtifactLabel(req, i) ==
  IF i > Len(req.artifacts) THEN "commit"
  ELSE IF req.artifacts[i].id # {} /\ req.abort_if_latest_updated_time_changed
    THEN "PA_check"
  ELSE "PA_upsert"

\* FindArtifactsById and the comparison of the update times; SleepFor(1 ms)
\* when they agree.
PutArtifacts_Check(p) ==
  /\ proc[p].op = "PutArtifacts" /\ proc[p].pc = "PA_check"
  /\ LET artifact == proc[p].req.artifacts[proc[p].i]
         artifacts == FindArtifactsById(db, p, CHOOSE k \in artifact.id : TRUE)
     IN
     IF artifacts = {}
       THEN Goto(p, db, [proc[p] EXCEPT !.pc = "PA_upsert"])
     ELSE IF \E existing_artifact \in artifacts : artifact.time # existing_artifact.time
       THEN Fail(p, "FAILED_PRECONDITION")
     ELSE /\ now < MaxTime
          /\ now' = now + 1
          /\ proc' = [proc EXCEPT ![p].pc = "PA_upsert"]
          /\ UNCHANGED <<db, hist>>

PutArtifacts_Item(p) ==
  /\ proc[p].op = "PutArtifacts" /\ proc[p].pc = "PA_upsert"
  /\ LET artifact == proc[p].req.artifacts[proc[p].i] IN
     /\ ~NodeWaits(db, p, "artifacts", artifact)
     /\ LET r == UpsertArtifact(db, p, artifact) IN
        IF r.st # "OK" THEN Fail(p, r.st)
        ELSE Goto(p, r.db, [proc[p] EXCEPT !.resp.artifact_ids = Append(@, r.id),
                                           !.i = @ + 1,
                                           !.pc = ArtifactLabel(proc[p].req, proc[p].i + 1)])

PutExecutions_Item(p) ==
  /\ proc[p].op = "PutExecutions" /\ proc[p].pc = "item"
  /\ LET execution == proc[p].req.executions[proc[p].i] IN
     /\ ~NodeWaits(db, p, "executions", execution)
     /\ LET r == UpsertExecution(db, p, execution) IN
        IF r.st # "OK" THEN Fail(p, r.st)
        ELSE Goto(p, r.db, [proc[p] EXCEPT !.resp.execution_ids = Append(@, r.id),
                                           !.i = @ + 1,
                                           !.pc = ItemLabel(proc[p].req.executions,
                                                            proc[p].i + 1)])

PutEvents_Item(p) ==
  /\ proc[p].op = "PutEvents" /\ proc[p].pc = "item"
  /\ LET event == proc[p].req.events[proc[p].i] IN
     /\ ~EventWaits(db, p, event.artifact_id, event.execution_id)
     /\ LET r == CreateEvent(db, p, event.artifact_id, event.execution_id) IN
        IF r.st # "OK" THEN Fail(p, r.st)
        ELSE Goto(p, r.db, [proc[p] EXCEPT !.i = @ + 1,
                                           !.pc = ItemLabel(proc[p].req.events, proc[p].i + 1)])

\* Where PutAttributionsAndAssociations goes on: attribution number i, then
\* association number j.
LinkLabel(req, i, j) ==
  IF i <= Len(req.attributions) THEN "attribution"
  ELSE IF j <= Len(req.associations) THEN "association"
  ELSE "commit"

PAA_Attribution(p) ==
  /\ proc[p].op = "PutAttributionsAndAssociations" /\ proc[p].pc = "attribution"
  /\ LET attribution == proc[p].req.attributions[proc[p].i] IN
     /\ ~AttributionWaits(db, p, attribution.context_id, attribution.artifact_id)
     /\ LET r == InsertAttributionIfNotExist(db, p, attribution.context_id,
                                             attribution.artifact_id)
        IN IF r.st # "OK" THEN Fail(p, r.st)
           ELSE Goto(p, r.db, [proc[p] EXCEPT !.i = @ + 1,
                                              !.pc = LinkLabel(proc[p].req, proc[p].i + 1,
                                                               proc[p].j)])

PAA_Association(p) ==
  /\ proc[p].op = "PutAttributionsAndAssociations" /\ proc[p].pc = "association"
  /\ LET association == proc[p].req.associations[proc[p].j] IN
     /\ ~AssociationWaits(db, p, association.context_id, association.execution_id)
     /\ LET r == InsertAssociationIfNotExist(db, p, association.context_id,
                                             association.execution_id)
        IN IF r.st # "OK" THEN Fail(p, r.st)
           ELSE Goto(p, r.db, [proc[p] EXCEPT !.j = @ + 1,
                                              !.pc = LinkLabel(proc[p].req, proc[p].i,
                                                               proc[p].j + 1)])

PutParentContexts_Item(p) ==
  /\ proc[p].op = "PutParentContexts" /\ proc[p].pc = "item"
  /\ LET parent_context == proc[p].req.parent_contexts[proc[p].i] IN
     /\ ~ParentContextWaits(db, p, parent_context.child_id, parent_context.parent_id)
     /\ LET r == CreateParentContext(db, p, parent_context.child_id,
                                     parent_context.parent_id)
        IN IF r.st # "OK" THEN Fail(p, r.st)
           ELSE Goto(p, r.db, [proc[p] EXCEPT !.i = @ + 1,
                                              !.pc = ItemLabel(proc[p].req.parent_contexts,
                                                               proc[p].i + 1)])

----------------------------------------------------------------------------
(* Requests.  The store of the scenarios holds artifact type 1, execution  *)
(* type 2, context type 3 and one recorded step: artifact 1, execution 1   *)
(* and context 1 ("c0") with their event, association and attribution.     *)

Node(id, type_id, name, val) == [id |-> id, type_id |-> type_id, name |-> name, val |-> val]

NoNode == Node({}, 0, "", "")

Event(artifact_id, execution_id) == [artifact_id |-> artifact_id, execution_id |-> execution_id]

ArtifactAndEvent(has_artifact, artifact, has_event, event) ==
  [has_artifact |-> has_artifact, artifact |-> artifact, has_event |-> has_event, event |-> event]

NewArtifact == Node({}, 1, "", "x")
StoredArtifact == Node({1}, 1, "", "y")
UnknownArtifact == Node({9}, 1, "", "x")

NewExecution == Node({}, 2, "", "x")
StoredExecution == Node({1}, 2, "", "y")
UnknownExecution == Node({9}, 2, "", "x")

NewContext == Node({}, 3, "c1", "x")
SameNameContext == Node({}, 3, "c0", "x")
StoredContext == Node({1}, 3, "c0", "y")
RenamedContext == Node({1}, 3, "c1", "y")
UnknownContext == Node({9}, 3, "c2", "x")

EmptyPair == ArtifactAndEvent(FALSE, NoNode, FALSE, Event({}, {}))
OutputPair == ArtifactAndEvent(TRUE, NewArtifact, TRUE, Event({}, {}))
InputPair == ArtifactAndEvent(FALSE, NoNode, TRUE, Event({1}, {}))

ArtifactAndEvents ==
  {EmptyPair, OutputPair,
   ArtifactAndEvent(TRUE, NewArtifact, FALSE, Event({}, {})),
   InputPair,
   ArtifactAndEvent(FALSE, NoNode, TRUE, Event({9}, {})),
   ArtifactAndEvent(FALSE, NoNode, TRUE, Event({}, {})),
   ArtifactAndEvent(TRUE, StoredArtifact, TRUE, Event({1}, {})),
   ArtifactAndEvent(TRUE, StoredArtifact, TRUE, Event({2}, {})),
   ArtifactAndEvent(TRUE, NewArtifact, TRUE, Event({1}, {})),
   ArtifactAndEvent(TRUE, NewArtifact, TRUE, Event({}, {1})),
   ArtifactAndEvent(TRUE, UnknownArtifact, FALSE, Event({}, {}))}

PutExecutionRequest(has_execution, execution, pairs, contexts, reuse) ==
  [has_execution |-> has_execution, execution |-> execution,
   artifact_event_pairs |-> pairs, contexts |-> contexts,
   reuse_context_if_already_exist |-> reuse]

\* The requests of PutExecution: a step that records one output artifact in
\* one new context, varied in its execution, in its pair and in its contexts.
PutExecutionRequests ==
  {PutExecutionRequest(FALSE, NoNode, <<OutputPair>>, <<NewContext>>, FALSE)}
    \cup {PutExecutionRequest(TRUE, e, <<OutputPair>>, <<NewContext>>, FALSE) :
            e \in {StoredExecution, UnknownExecution}}
    \cup {PutExecutionRequest(TRUE, NewExecution, <<ae>>, <<NewContext>>, FALSE) :
            ae \in ArtifactAndEvents}
    \cup {PutExecutionRequest(TRUE, StoredExecution, <<ae>>, <<>>, FALSE) :
            ae \in {InputPair, ArtifactAndEvent(TRUE, NewArtifact, TRUE, Event({}, {1}))}}
    \cup {PutExecutionRequest(TRUE, NewExecution, <<OutputPair>>, <<NewContext>>, TRUE)}
    \cup {PutExecutionRequest(TRUE, NewExecution, <<OutputPair>>, cs, r) :
            cs \in {<<>>, <<SameNameContext>>, <<StoredContext>>, <<UnknownContext>>,
                    <<NewContext, SameNameContext>>},
            r \in BOOLEAN}
    \cup {PutExecutionRequest(TRUE, NewExecution, <<OutputPair, ae>>, <<SameNameContext>>, TRUE) :
            ae \in {EmptyPair, InputPair, ArtifactAndEvent(FALSE, NoNode, TRUE, Event({}, {}))}}

PutContextsRequests ==
  {[contexts |-> cs] :
     cs \in {<<NewContext>>, <<SameNameContext>>, <<RenamedContext>>,
             <<NewContext, UnknownContext>>}}

TypeRow(id, kind, name) ==
  [id |-> id, kind |-> kind, name |-> name, version |-> "", tx |-> 0, by |-> <<0, 0>>]

NodeRow(id, type_id, name) ==
  [id |-> id, type_id |-> type_id, name |-> name, val |-> "x", time |-> 0,
   tx |-> 0, by |-> <<0, 0>>]

\* The store after PutTypes and one PutExecution.
RecordedStep ==
  [EmptyDb EXCEPT
     !.types = {TypeRow(1, "artifact", "A"), TypeRow(2, "execution", "E"),
                TypeRow(3, "context", "C")},
     !.artifacts = {NodeRow(1, 1, "")},
     !.executions = {NodeRow(1, 2, "")},
     !.contexts = {NodeRow(1, 3, "c0")},
     !.events = {[id |-> 1, artifact_id |-> 1, execution_id |-> 1, tx |-> 0, by |-> <<0, 0>>]},
     !.associations =
        {[id |-> 1, context_id |-> 1, execution_id |-> 1, tx |-> 0, by |-> <<0, 0>>]},
     !.attributions =
        {[id |-> 1, context_id |-> 1, artifact_id |-> 1, tx |-> 0, by |-> <<0, 0>>]}]

----------------------------------------------------------------------------
(* Composite writes among concurrent writers.                              *)

Writers == {1, 2}

Call_PutExecution(p, requests) ==
  /\ CanCall(p)
  /\ \E req \in requests :
       proc' = [proc EXCEPT ![p] = Started(p, "PutExecution", "PE_execution", req,
                                           ClearedPutExecutionResponse)]
  /\ UNCHANGED <<db, hist, now>>

Call_PutContexts(p) ==
  /\ CanCall(p)
  /\ \E req \in PutContextsRequests :
       proc' = [proc EXCEPT ![p] = Started(p, "PutContexts", ItemLabel(req.contexts, 1), req,
                                           [context_ids |-> <<>>])]
  /\ UNCHANGED <<db, hist, now>>

\* The client runs the request again that PutExecution aborted.
Retry(p) ==
  /\ proc[p].op = "PutExecution" /\ proc[p].pc = "done" /\ proc[p].status = "ABORTED"
  /\ proc[p].attempt < MaxAttempts
  /\ proc' = [proc EXCEPT ![p] = [@ EXCEPT !.pc = "PE_execution",
                                           !.resp = ClearedPutExecutionResponse,
                                           !.status = "NONE",
                                           !.i = 1, !.j = 1, !.context_id = -1,
                                           !.missed = {},
                                           !.calls = @ + 1,
                                           !.attempt = @ + 1,
                                           !.transactions = 1]]
  /\ UNCHANGED <<db, hist, now>>

InitExec ==
  /\ db = RecordedStep
  /\ proc = [p \in Procs |-> Idle]
  /\ hist = <<>>
  /\ now = 1

NextExec ==
  \E p \in Writers :
    \/ Call_PutExecution(p, PutExecutionRequests)
    \/ PE_Execution(p)
    \/ PE_Pair(p)
    \/ PE_Context(p)
    \/ PE_CtxUpsert(p)
    \/ PE_Links(p)
    \/ Call_PutContexts(p)
    \/ PutContexts_Item(p)
    \/ TxCommit(p)

SpecExec == InitExec /\ [][NextExec]_vars

(* C1: when PutExecution has returned a status other than OK, the store  *)
(* holds no row of any table (execution, artifact, event, context,         *)
(* association, attribution) that this call wrote.                         *)
PutExecutionAtomic ==
  \A p \in Procs :
    (proc[p].op = "PutExecution" /\ proc[p].pc = "done" /\ proc[p].status # "OK")
      => \A t \in Tables : \A r \in db[t] : r.by # By(p)

\* A PutExecution that failed on a context after it had upserted its execution
\* and a new artifact with its event.
PutExecutionFailedAfterWrites ==
  \E p \in Procs :
    /\ proc[p].op = "PutExecution" /\ proc[p].pc = "done"
    /\ proc[p].status \in {"ALREADY_EXISTS", "ABORTED"}
    /\ proc[p].resp.execution_id > 1
    /\ Len(proc[p].resp.artifact_ids) > 0

(* C8: in every state, among the contexts that any reader sees (the        *)
(* committed rows, and each open transaction's view of them) no two        *)
(* different contexts have the same (type_id, name).                       *)
ContextNamesUnique ==
  \A p \in Procs \cup {0} :
    \A a, b \in View(db, p, "contexts") :
      (a.type_id = b.type_id /\ a.name = b.name) => a.id = b.id

\* PutContexts was refused the name that a PutExecution had taken meanwhile.
ContextNameRefused ==
  \E p, q \in Procs :
    /\ proc[p].op = "PutContexts" /\ proc[p].pc = "done"
    /\ proc[p].status = "ALREADY_EXISTS"
    /\ proc[q].op = "PutExecution" /\ proc[q].pc = "done" /\ proc[q].status = "OK"
    /\ \E c \in Committed(db, "contexts") : c.name = "c1" /\ c.by = By(q)

----------------------------------------------------------------------------
(* The reuse protocol: writers that record a step in the same new context  *)
(* with reuse_context_if_already_exist, each request one that succeeds     *)
(* when it runs alone, and one writer that does not set the option.        *)

ReuseRequests ==
  {PutExecutionRequest(TRUE, NewExecution, pairs, cs, TRUE) :
     pairs \in {<<>>, <<OutputPair>>},
     cs \in {<<NewContext>>, <<SameNameContext, NewContext>>, <<NewContext, SameNameContext>>}}
    \cup {PutExecutionRequest(TRUE, NewExecution, <<>>, <<NewContext>>, FALSE)}

PutExecution_Step(p) ==
  \/ PE_Execution(p)
  \/ PE_Pair(p)
  \/ PE_Context(p)
  \/ PE_CtxUpsert(p)
  \/ PE_Links(p)
  \/ TxCommit(p)
  \/ Retry(p)

\* A writer whose call was aborted runs it again before it starts another.
NextReuse ==
  \E p \in Writers :
    \/ proc[p].status # "ABORTED" /\ Call_PutExecution(p, ReuseRequests)
    \/ PutExecution_Step(p)

SpecReuse == InitExec /\ [][NextReuse]_vars

\* Every writer sends one request.
Call_Once(p, requests) ==
  /\ proc[p].pc = "idle"
  /\ \E req \in requests :
       proc' = [proc EXCEPT ![p] = Started(p, "PutExecution", "PE_execution", req,
                                           ClearedPutExecutionResponse)]
  /\ UNCHANGED <<db, hist, now>>

NextReuseOnce ==
  \E p \in Writers :
    \/ Call_Once(p, ReuseRequests)
    \/ PutExecution_Step(p)

\* Every call that has started goes on, and every aborted call is run again.
FairReuse ==
  /\ InitExec
  /\ [][NextReuseOnce]_vars
  /\ \A p \in Writers : WF_vars(PutExecution_Step(p))

SameKey(a, b) == a.type_id = b.type_id /\ a.name = b.name

(* C7: when two PutExecution calls that both looked the same new context   *)
(* up and did not find it have returned, one returned OK and the other     *)
(* ABORTED; and the re-run of an aborted request returns OK with, for      *)
(* every context it shares with the other writer's successful request, the *)
(* context id that writer got.                                             *)
ReuseRace ==
  \A p, q \in Procs :
    (/\ p # q
     /\ proc[p].op = "PutExecution" /\ proc[p].pc = "done"
     /\ proc[q].op = "PutExecution" /\ proc[q].pc = "done")
    =>
     /\ proc[p].missed \cap proc[q].missed # {}
          => {proc[p].status, proc[q].status} = {"OK", "ABORTED"}
     /\ proc[p].attempt > 1
          => /\ proc[p].status = "OK"
             /\ proc[q].status = "OK" =>
                  \A j \in 1..Len(proc[p].req.contexts), k \in 1..Len(proc[q].req.contexts) :
                    SameKey(proc[p].req.contexts[j], proc[q].req.contexts[k])
                      => proc[p].resp.context_ids[j] = proc[q].resp.context_ids[k]

\* The aborted writer ran again and got the context of the winner.
ReuseRaceRetried ==
  \E p, q \in Procs :
    /\ proc[p].op = "PutExecution" /\ proc[p].pc = "done" /\ proc[p].status = "OK"
    /\ proc[p].attempt = 2
    /\ proc[q].op = "PutExecution" /\ proc[q].pc = "done" /\ proc[q].status = "OK"
    /\ proc[q].req.reuse_context_if_already_exist
    /\ <<3, "c1">> \in proc[q].missed
    /\ \E c \in Committed(db, "contexts") :
         c.name = "c1" /\ c.by = By(q) /\ proc[p].resp.context_ids = <<c.id>>

(* C9: under fair scheduling with every aborted call run again, every      *)
(* PutExecution request with reuse_context_if_already_exist that a writer  *)
(* has started eventually returns OK.                                      *)
ReuseEventuallyOK ==
  \A p \in Writers :
    [](proc[p].op = "PutExecution" /\ proc[p].req.reuse_context_if_already_exist
         => <>(proc[p].pc = "done" /\ proc[p].status = "OK"))

\* A writer was aborted and its request has returned OK since.
AbortedThenOK ==
  \E p, q \in Procs :
    /\ p # q
    /\ proc[p].op = "PutExecution" /\ proc[p].attempt > 1
    /\ proc[p].pc = "done" /\ proc[p].status = "OK"
    /\ proc[q].op = "PutExecution" /\ proc[q].pc = "done" /\ proc[q].status = "OK"

----------------------------------------------------------------------------
(* Type registration among concurrent writers, on a store that holds one   *)
(* artifact type without properties and has not been seeded.               *)

Pu == [n \in {"u"} |-> "STRING"]

Pui == [n \in {"u"} |-> "INT"]

Pw == [n \in {"w"} |-> "INT"]

Puw == [n \in {"u", "w"} |-> IF n = "u" THEN "STRING" ELSE "INT"]

PutTypesRequest(artifact_types, execution_types, context_types, can_add, can_omit) ==
  [artifact_types |-> artifact_types, execution_types |-> execution_types,
   context_types |-> context_types, all_fields_match |-> TRUE,
   can_add_fields |-> can_add, can_omit_fields |-> can_omit]

\* Put{Artifact,Execution,Context}Type: the request holds one type.
PutTypeRequest(op, type, can_add, can_omit) ==
  [op |-> op,
   req |-> PutTypesRequest(IF op = "PutArtifactType" THEN <<type>> ELSE <<>>,
                           IF op = "PutExecutionType" THEN <<type>> ELSE <<>>,
                           IF op = "PutContextType" THEN <<type>> ELSE <<>>,
                           can_add, can_omit)]

NoFieldsMatch(call) == [call EXCEPT !.req.all_fields_match = FALSE]

TypeCalls ==
  {PutTypeRequest("PutArtifactType", Type("T", "", props, ""), flags[1], flags[2]) :
     props \in {NoProperties, Pu, Pui, Pw, Puw},
     flags \in {<<TRUE, TRUE>>, <<FALSE, FALSE>>, <<TRUE, FALSE>>, <<FALSE, TRUE>>}}
  \cup {PutTypeRequest("PutArtifactType", Type("T", "", Pu, base), TRUE, TRUE) :
          base \in {"UNSET", "MODEL", "DATASET"}}
  \cup {PutTypeRequest("PutExecutionType", Type("T", "", Pu, base), TRUE, TRUE) :
          base \in {"", "TRAIN"}}
  \cup {PutTypeRequest("PutContextType", Type("T", "", Pw, ""), FALSE, FALSE),
        PutTypeRequest("PutArtifactType", Type("T", "v1", Pw, ""), TRUE, TRUE),
        PutTypeRequest("PutArtifactType", Type("", "", Pu, ""), TRUE, TRUE),
        NoFieldsMatch(PutTypeRequest("PutArtifactType", Type("T", "", Pu, ""), TRUE, TRUE))}
  \cup {[op |-> "PutTypes", req |-> r] :
          r \in {PutTypesRequest(<<Type("T", "", Pu, "")>>, <<Type("T", "", Pw, "")>>,
                                 <<Type("T", "", NoProperties, "")>>, TRUE, TRUE),
                 PutTypesRequest(<<Type("T", "", Pu, ""), Type("T", "", Puw, "")>>, <<>>, <<>>,
                                 TRUE, TRUE),
                 PutTypesRequest(<<Type("T", "", Pu, ""), Type("T", "", Pui, "")>>, <<>>, <<>>,
                                 TRUE, TRUE),
                 PutTypesRequest(<<Type("T", "", Puw, "")>>, <<Type("", "", Pu, "")>>, <<>>,
                                 FALSE, FALSE)}}

\* Call_PutType without the check of all_fields_match.
Call_PutTypeUnchecked(p, calls) ==
  /\ CanCall(p)
  /\ \E call \in calls :
       proc' = [proc EXCEPT ![p] = Started(p, call.op, TypeItemLabel(call.req, 1), call.req,
                                           [type_ids |-> <<>>])]
  /\ UNCHANGED <<db, hist, now>>

Call_PutType(p, calls) ==
  /\ CanCall(p)
  /\ \E call \in calls :
       proc' = [proc EXCEPT ![p] =
                  IF call.req.all_fields_match
                    THEN Started(p, call.op, TypeItemLabel(call.req, 1), call.req,
                                 [type_ids |-> <<>>])
                    ELSE [Started(p, call.op, "done", call.req, [type_ids |-> <<>>])
                            EXCEPT !.status = "UNIMPLEMENTED", !.transactions = 0]]
  /\ UNCHANGED <<db, hist, now>>

\* UpsertSimpleTypes: the catalog, with can_add_fields and can_omit_fields.
SimpleTypesRequest ==
  PutTypesRequest(SimpleTypes.artifact_types, SimpleTypes.execution_types,
                  SimpleTypes.context_types, TRUE, TRUE)

Call_Init(p) ==
  /\ CanCall(p)
  /\ \E op \in {"InitMetadataStore", "InitMetadataStoreIfNotExists"} :
       proc' = [proc EXCEPT ![p] = Started(p, op, "init_source", SimpleTypesRequest,
                                           [type_ids |-> <<>>])]
  /\ UNCHANGED <<db, hist, now>>

UpsertType_Step(p) ==
  \/ UT_Find(p)
  \/ UT_Create(p)
  \/ UT_Update(p)
  \/ UT_Link(p)
  \/ UT_LinkCreate(p)
  \/ TxCommit(p)

\* The store after PutArtifactType of "T" without properties.
RegisteredType == [EmptyDb EXCEPT !.types = {TypeRow(1, "artifact", "T")}]

InitTypes ==
  /\ db = RegisteredType
  /\ proc = [p \in Procs |-> Idle]
  /\ hist = <<>>
  /\ now = 1

NextTypes ==
  \E p \in Writers :
    \/ Call_PutType(p, TypeCalls)
    \/ Call_Init(p)
    \/ Init_Source(p)
    \/ UpsertType_Step(p)

SpecTypes == InitTypes /\ [][NextTypes]_vars

TypeKey(r) == <<r.kind, r.name, r.version>>

\* The committed properties of the stored types: <<type id, name, kind>>.
StoredProperties == {<<r.type_id, r.name, r.ptype>> : r \in Committed(db, "typeProps")}

StoredParentLinks == {<<r.type_id, r.parent_type_id>> : r \in Committed(db, "parentTypes")}

StoredTypeRows == {<<r.id, r.kind, r.name, r.version>> : r \in Committed(db, "types")}

\* C3: type monotonicity.  Whatever step a type-writing call takes, whether
\* it ends OK or with an error and whatever can_add_fields and
\* can_omit_fields are, every stored type stays stored and every property a
\* stored type has is still on it afterwards with the same kind.
TypeMonotonic ==
  [][/\ StoredTypeRows \subseteq StoredTypeRows'
     /\ StoredProperties \subseteq StoredProperties']_vars

\* A stored type with a property was upserted again by a request that omits
\* the property with can_omit_fields, and the call returned OK.
OmittingUpsertDone ==
  \E p \in Writers :
    /\ IsTypeOp(p) /\ proc[p].pc = "done" /\ proc[p].status = "OK"
    /\ proc[p].req.can_omit_fields
    /\ \E k \in 1..Len(TypeItems(proc[p].req)) :
         \E r \in Committed(db, "typeProps") :
           /\ r.type_id = proc[p].resp.type_ids[k]
           /\ r.by # By(p)
           /\ r.name \notin DOMAIN TypeItems(proc[p].req)[k].type.properties

\* The three ways a given type is inconsistent with a stored one.
Inconsistent(stored_type, type, can_add_fields, can_omit_fields) ==
  \/ \E n \in DOMAIN stored_type.properties \cap DOMAIN type.properties :
       stored_type.properties[n] # type.properties[n]
  \/ ~can_add_fields /\ DOMAIN type.properties \ DOMAIN stored_type.properties # {}
  \/ ~can_omit_fields /\ DOMAIN stored_type.properties \ DOMAIN type.properties # {}

\* The type p is about to upsert is stored and inconsistent with the request.
UpsertsInconsistent(p) ==
  /\ IsTypeOp(p) /\ proc[p].pc = "UT_find"
  /\ LET req == proc[p].req
         item == TypeItems(req)[proc[p].i]
         found == FindTypeByNameAndVersion(db, p, item.kind, item.type.name, item.type.version)
     IN /\ found # {}
        /\ \A stored_type \in found :
             Inconsistent(stored_type, item.type, req.can_add_fields, req.can_omit_fields)

\* C5: a type upsert that finds the stored type inconsistent with the given
\* one (a shared property of another kind, a new property without
\* can_add_fields, an omitted property without can_omit_fields) makes the call
\* return ALREADY_EXISTS, and the stored types, their properties and their
\* parent links are as they were before the call: the step changes no
\* committed row and leaves no write of the call behind.
InconsistentUpsertRefused ==
  [][\A p \in Writers :
       UpsertsInconsistent(p) /\ proc'[p] # proc[p] =>
         /\ proc'[p].pc = "done" /\ proc'[p].status = "ALREADY_EXISTS"
         /\ StoredTypeRows' = StoredTypeRows
         /\ StoredProperties' = StoredProperties
         /\ StoredParentLinks' = StoredParentLinks
         /\ \A t \in Tables : \A r \in db'[t] : r.tx # p /\ r.by # By(p)]_vars

\* A PutTypes call was refused with ALREADY_EXISTS on its second type, after
\* it had upserted the first, and the store holds properties.
SchemaConflictRefused ==
  \E p \in Writers :
    /\ IsTypeOp(p) /\ proc[p].pc = "done" /\ proc[p].status = "ALREADY_EXISTS"
    /\ Len(proc[p].resp.type_ids) = 1
    /\ StoredProperties # {}

\* C6: type uniqueness.  In every reachable state, for each kind and
\* (name, version) there is at most one stored type.
TypeNamesUnique ==
  \A r, s \in Committed(db, "types") : TypeKey(r) = TypeKey(s) => r.id = s.id

----------------------------------------------------------------------------
(* PutArtifactType calls one after the other, on a store that              *)
(* InitMetadataStore has seeded.                                           *)

\* Calls of one sequence.
MaxSeqCalls == 3

SeededStore ==
  [EmptyDb EXCEPT
     !.types = {TypeRow(1, "artifact", "mlmd.Model"), TypeRow(2, "execution", "mlmd.Train")}]

SeqTypeCalls ==
  {PutTypeRequest("PutArtifactType", Type("T", "", props, ""), flags[1], flags[2]) :
     props \in {NoProperties, Pu, Pui, Pw, Puw},
     flags \in {<<TRUE, TRUE>>, <<TRUE, FALSE>>, <<FALSE, TRUE>>}}
  \cup {PutTypeRequest("PutArtifactType", Type("T", "", Pu, base), TRUE, TRUE) :
          base \in {"MODEL", "UNSET"}}

\* A call starts when no other call is running.
Call_PutTypeInTurn(p) ==
  /\ \A q \in Procs : proc[q].pc \in {"idle", "done"}
  /\ Sum([q \in Procs |-> proc[q].started], Procs) < MaxSeqCalls
  /\ \E call \in SeqTypeCalls :
       proc' = [proc EXCEPT ![p] = Started(p, call.op, TypeItemLabel(call.req, 1), call.req,
                                           [type_ids |-> <<>>])]
  /\ UNCHANGED <<db, hist, now>>

InitTypeSeq ==
  /\ db = SeededStore
  /\ proc = [p \in Procs |-> Idle]
  /\ hist = <<>>
  /\ now = 1

NextTypeSeq ==
  \E p \in Writers :
    \/ Call_PutTypeInTurn(p)
    \/ UpsertType_Step(p)

SpecTypeSeq == InitTypeSeq /\ [][NextTypeSeq]_vars

\* The property map as a set of <<name, kind>>.
Pairs(properties) == {<<n, properties[n]>> : n \in DOMAIN properties}

\* The PutArtifactType calls on (name, version) that returned OK, in order.
CallsOn(name, version) ==
  SelectSeq(hist, LAMBDA c : /\ c.op = "PutArtifactType"
                             /\ c.req.artifact_types[1].name = name
                             /\ c.req.artifact_types[1].version = version)

\* C4: when every PutArtifactType call made so far on one (name, version)
\* had can_add_fields and can_omit_fields, and no call is running, the stored
\* type's properties are the union of the property maps of the calls that
\* returned OK, and each of those calls returned the type_id of the first.
PropertiesAreUnion ==
  \A name \in {"T"}, version \in {""} :
    LET calls == CallsOn(name, version) IN
    /\ \A q \in Procs : proc[q].pc \in {"idle", "done"}
    /\ calls # <<>>
    /\ \A q \in Procs : proc[q].op = "PutArtifactType" =>
         proc[q].req.can_add_fields /\ proc[q].req.can_omit_fields
    /\ \A k \in 1..Len(calls) : calls[k].req.can_add_fields /\ calls[k].req.can_omit_fields
    => /\ \A k \in 1..Len(calls) : calls[k].type_id = calls[1].type_id
       /\ {<<r.name, r.ptype>> :
             r \in {x \in Committed(db, "typeProps") : x.type_id = calls[1].type_id}}
          = UNION {Pairs(calls[k].req.artifact_types[1].properties) : k \in 1..Len(calls)}

\* Three calls with can_add_fields and can_omit_fields returned OK, and the
\* stored type has a property the last of them did not give.
WidenedBySequence ==
  /\ Len(hist) = 3
  /\ \A k \in 1..3 : hist[k].req.can_add_fields /\ hist[k].req.can_omit_fields
  /\ \A q \in Procs : proc[q].pc \in {"idle", "done"}
  /\ \E r \in Committed(db, "typeProps") :
       /\ r.type_id = hist[1].type_id
       /\ r.name \notin DOMAIN hist[3].req.artifact_types[1].properties
  /\ hist[3].req.artifact_types[1].properties # hist[2].req.artifact_types[1].properties


----------------------------------------------------------------------------
(* Batch writes among concurrent writers.  The store holds the recorded    *)
(* step and an artifact, an execution and a context without links.         *)

BatchStore ==
  [RecordedStep EXCEPT
     !.artifacts = @ \cup {NodeRow(2, 1, "")},
     !.executions = @ \cup {NodeRow(2, 2, "")},
     !.contexts = @ \cup {NodeRow(2, 3, "c2")}]

\* The events of PutEvents carry both ids.  An artifact of PutArtifacts carries its last_update_time_since_epoch.
Timed(n, time) ==
  [id |-> n.id, type_id |-> n.type_id, name |-> n.name, val |-> n.val, time |-> time]

Attribution(context_id, artifact_id) == [context_id |-> context_id, artifact_id |-> artifact_id]

Association(context_id, execution_id) ==
  [context_id |-> context_id, execution_id |-> execution_id]

ParentContext(child_id, parent_id) == [child_id |-> child_id, parent_id |-> parent_id]

BatchCalls ==
  {[op |-> "PutArtifacts",
    req |-> [artifacts |-> as, abort_if_latest_updated_time_changed |-> opt]] :
     as \in {<<Timed(StoredArtifact, 0), Timed(UnknownArtifact, 0)>>,
             <<Timed(NewArtifact, 0), Timed(StoredArtifact, 1)>>},
     opt \in BOOLEAN}
  \cup {[op |-> "PutExecutions", req |-> [executions |-> es]] :
          es \in {<<NewExecution, StoredExecution>>, <<StoredExecution, UnknownExecution>>}}
  \cup {[op |-> "PutContexts", req |-> [contexts |-> cs]] :
          cs \in {<<NewContext, SameNameContext>>, <<RenamedContext, UnknownContext>>}}
  \cup {[op |-> "PutEvents", req |-> [events |-> es]] :
          es \in {<<Event(2, 2), Event(1, 1)>>, <<Event(2, 1), Event(9, 1)>>}}
  \cup {[op |-> "PutAttributionsAndAssociations",
         req |-> [attributions |-> ats, associations |-> ass]] :
          ats \in {<<Attribution(2, 1), Attribution(1, 1)>>},
          ass \in {<<Association(1, 2), Association(1, 9)>>}}
  \cup {[op |-> "PutAttributionsAndAssociations",
         req |-> [attributions |-> <<Attribution(2, 2), Attribution(9, 1)>>,
                  associations |-> <<>>]]}
  \cup {[op |-> "PutParentContexts", req |-> [parent_contexts |-> ps]] :
          ps \in {<<ParentContext(2, 1), ParentContext(1, 2)>>,
                  <<ParentContext(1, 2), ParentContext(1, 9)>>}}
  \cup {[op |-> "PutTypes", req |-> r] :
          r \in {PutTypesRequest(<<Type("A", "", Pu, ""), Type("A", "", Pui, "")>>, <<>>, <<>>,
                                 TRUE, TRUE),
                 PutTypesRequest(<<Type("T", "", Puw, "")>>, <<Type("E", "", Pu, "")>>,
                                 <<Type("", "", Pu, "")>>, TRUE, TRUE)}}

\* The first label of the closure of a batch write, and its cleared response.
FirstLabel(call) ==
  CASE call.op = "PutArtifacts" -> ArtifactLabel(call.req, 1)
    [] call.op = "PutExecutions" -> ItemLabel(call.req.executions, 1)
    [] call.op = "PutContexts" -> ItemLabel(call.req.contexts, 1)
    [] call.op = "PutEvents" -> ItemLabel(call.req.events, 1)
    [] call.op = "PutAttributionsAndAssociations" -> LinkLabel(call.req, 1, 1)
    [] call.op = "PutParentContexts" -> ItemLabel(call.req.parent_contexts, 1)
    [] call.op = "PutTypes" -> TypeItemLabel(call.req, 1)

ClearedResponse(op) ==
  CASE op = "PutArtifacts" -> [artifact_ids |-> <<>>]
    [] op = "PutExecutions" -> [execution_ids |-> <<>>]
    [] op = "PutContexts" -> [context_ids |-> <<>>]
    [] op = "PutTypes" -> [type_ids |-> <<>>]
    [] OTHER -> <<>>

Call_Batch(p, calls) ==
  /\ CanCall(p)
  /\ \E call \in calls :
       proc' = [proc EXCEPT ![p] = Started(p, call.op, FirstLabel(call), call.req,
                                           ClearedResponse(call.op))]
  /\ UNCHANGED <<db, hist, now>>

\* The clock goes on.
Tick ==
  /\ now < MaxTime
  /\ now' = now + 1
  /\ UNCHANGED <<db, proc, hist>>

Batch_Step(p) ==
  \/ PutArtifacts_Check(p)
  \/ PutArtifacts_Item(p)
  \/ PutExecutions_Item(p)
  \/ PutContexts_Item(p)
  \/ PutEvents_Item(p)
  \/ PAA_Attribution(p)
  \/ PAA_Association(p)
  \/ PutParentContexts_Item(p)
  \/ UT_Find(p)
  \/ UT_Create(p)
  \/ UT_Update(p)
  \/ TxCommit(p)

InitBatch ==
  /\ db = BatchStore
  /\ proc = [p \in Procs |-> Idle]
  /\ hist = <<>>
  /\ now = 1

NextBatch ==
  \/ Tick
  \/ \E p \in Writers :
       \/ Call_Batch(p, BatchCalls)
       \/ Batch_Step(p)

SpecBatch == InitBatch /\ [][NextBatch]_vars

BatchOps ==
  {"PutTypes", "PutArtifacts", "PutExecutions", "PutContexts", "PutEvents",
   "PutAttributionsAndAssociations", "PutParentContexts"}

\* C2: batch writes are all-or-nothing.  When PutTypes, PutArtifacts,
\* PutExecutions, PutContexts, PutEvents, PutAttributionsAndAssociations or
\* PutParentContexts has returned a status other than OK, whichever element
\* it failed on, no table holds a row that this call wrote: the writes made
\* for the elements before the failing one are gone.
BatchAtomic ==
  \A p \in Procs :
    (proc[p].op \in BatchOps /\ proc[p].pc = "done" /\ proc[p].status # "OK")
      => \A t \in Tables : \A r \in db[t] : r.by # By(p)

\* A batch write failed on its second element or a later one, after an
\* earlier element had gone through.
BatchFailedAfterWrites ==
  \E p \in Procs :
    /\ proc[p].op \in BatchOps /\ proc[p].pc = "done" /\ proc[p].status # "OK"
    /\ proc[p].i + proc[p].j > 2

----------------------------------------------------------------------------
(* Three concurrent PutAttributionsAndAssociations calls that insert the   *)
(* same links.                                                             *)

LinkRequests ==
  {[attributions |-> ats, associations |-> ass] :
     ats \in {<<>>, <<Attribution(2, 2)>>},
     ass \in {<<Association(2, 2)>>, <<Association(2, 2), Association(1, 1)>>}}

Call_Links(p) ==
  /\ proc[p].pc = "idle"
  /\ \E req \in LinkRequests :
       proc' = [proc EXCEPT ![p] = Started(p, "PutAttributionsAndAssociations",
                                           LinkLabel(req, 1, 1), req, <<>>)]
  /\ UNCHANGED <<db, hist, now>>

NextLinks ==
  \E p \in Procs :
    \/ Call_Links(p)
    \/ PAA_Attribution(p)
    \/ PAA_Association(p)
    \/ TxCommit(p)

SpecLinks == InitBatch /\ [][NextLinks]_vars

\* The stored rows of the link table t between a and b.
LinkRows(t, first, a, second, b) ==
  {r \in Committed(db, t) : r[first] = a /\ r[second] = b}

\* C10: every one of the concurrent PutAttributionsAndAssociations calls
\* that inserts the association (2, 2) returns OK, and once it has returned
\* the store holds exactly one Association row for the pair; likewise for the
\* attribution (2, 2); and no state, and no open transaction's view of it,
\* holds two Attribution rows or two Association rows for one pair.
LinksInsertedOnce ==
  /\ \A p \in Procs :
       proc[p].op = "PutAttributionsAndAssociations" /\ proc[p].pc = "done" =>
         /\ proc[p].status = "OK"
         /\ \A k \in 1..Len(proc[p].req.associations) :
              Cardinality(LinkRows("associations", "context_id",
                                   proc[p].req.associations[k].context_id, "execution_id",
                                   proc[p].req.associations[k].execution_id)) = 1
         /\ \A k \in 1..Len(proc[p].req.attributions) :
              Cardinality(LinkRows("attributions", "context_id",
                                   proc[p].req.attributions[k].context_id, "artifact_id",
                                   proc[p].req.attributions[k].artifact_id)) = 1
  /\ \A p \in Procs \cup {0} :
       /\ \A r, s \in View(db, p, "associations") :
            r.context_id = s.context_id /\ r.execution_id = s.execution_id => r.id = s.id
       /\ \A r, s \in View(db, p, "attributions") :
            r.context_id = s.context_id /\ r.artifact_id = s.artifact_id => r.id = s.id

\* Three calls that insert the same new association have all returned.
ThreeInsertedOneLink ==
  \A p \in Procs :
    /\ proc[p].op = "PutAttributionsAndAssociations" /\ proc[p].pc = "done"
    /\ \E k \in 1..Len(proc[p].req.associations) :
         proc[p].req.associations[k] = Association(2, 2)

----------------------------------------------------------------------------
(* Re-insertion of stored links.  The store holds the attribution (1, 1),  *)
(* the association (1, 1) and the parent context link of context 2 to      *)
(* context 1.                                                              *)

RelinkStore ==
  [BatchStore EXCEPT
     !.parentContexts = {[id |-> 1, child_id |-> 2, parent_id |-> 1, tx |-> 0,
                          by |-> <<0, 0>>]}]

RelinkCalls ==
  {[op |-> "PutAttributionsAndAssociations",
    req |-> [attributions |-> ats, associations |-> ass]] :
     ats \in {<<Attribution(1, 1)>>, <<Attribution(2, 2), Attribution(1, 1)>>},
     ass \in {<<>>, <<Association(1, 1)>>}}
  \cup {[op |-> "PutParentContexts", req |-> [parent_contexts |-> ps]] :
          ps \in {<<ParentContext(2, 1)>>, <<ParentContext(1, 2)>>,
                  <<ParentContext(1, 2), ParentContext(2, 1)>>}}

InitRelink ==
  /\ db = RelinkStore
  /\ proc = [p \in Procs |-> Idle]
  /\ hist = <<>>
  /\ now = 1

NextRelink ==
  \E p \in Writers :
    \/ Call_Batch(p, RelinkCalls)
    \/ PAA_Attribution(p)
    \/ PAA_Association(p)
    \/ PutParentContexts_Item(p)
    \/ TxCommit(p)

SpecRelink == InitRelink /\ [][NextRelink]_vars

\* The links that the request of a link write names.
RequestedLinks(op, req) ==
  IF op = "PutParentContexts"
    THEN {<<"parentContexts", req.parent_contexts[k].child_id,
            req.parent_contexts[k].parent_id>> : k \in 1..Len(req.parent_contexts)}
    ELSE {<<"attributions", req.attributions[k].context_id,
            req.attributions[k].artifact_id>> : k \in 1..Len(req.attributions)}
         \cup {<<"associations", req.associations[k].context_id,
                 req.associations[k].execution_id>> : k \in 1..Len(req.associations)}

\* The links of a store.
LinksOf(d) ==
  {<<"parentContexts", r.child_id, r.parent_id>> : r \in Committed(d, "parentContexts")}
  \cup {<<"attributions", r.context_id, r.artifact_id>> : r \in Committed(d, "attributions")}
  \cup {<<"associations", r.context_id, r.execution_id>> : r \in Committed(d, "associations")}

\* C11: re-insertion of a stored link is a silent success for every link
\* kind.  A PutAttributionsAndAssociations call whose attributions and
\* associations are all stored already, and a PutParentContexts call whose
\* parent contexts are all stored already, returns OK and leaves no row of
\* its own in the store.
RelinkIsSilent ==
  \A p \in Procs :
    (/\ proc[p].op \in {"PutAttributionsAndAssociations", "PutParentContexts"}
     /\ proc[p].pc = "done"
     /\ RequestedLinks(proc[p].op, proc[p].req) \subseteq LinksOf(RelinkStore))
      => /\ proc[p].status = "OK"
         /\ \A t \in Tables : \A r \in db[t] : r.by # By(p)

----------------------------------------------------------------------------
(* Successive PutArtifacts updates of the stored artifact 1 while the      *)
(* clock goes on.                                                          *)

ClockCalls ==
  {[op |-> "PutArtifacts",
    req |-> [artifacts |-> <<Timed(StoredArtifact, time)>>,
             abort_if_latest_updated_time_changed |-> opt]] :
     time \in 0..MaxTime, opt \in BOOLEAN}

NextClock ==
  \/ Tick
  \/ \E p \in Writers :
       \/ Call_Batch(p, ClockCalls)
       \/ PutArtifacts_Check(p)
       \/ PutArtifacts_Item(p)
       \/ TxCommit(p)

SpecClock == InitBatch /\ [][NextClock]_vars

\* C12: every successful PutArtifacts update of a stored artifact stores a
\* last_update_time_since_epoch strictly greater than the value stored
\* before, for every pair of successive calls and whether or not
\* abort_if_latest_updated_time_changed is set.
UpdateTimeIncreases ==
  [][\A p \in Procs :
       (/\ proc[p].op = "PutArtifacts" /\ proc[p].pc = "commit"
        /\ proc'[p].pc = "done" /\ proc'[p].status = "OK")
         => \A new \in Committed(db', "artifacts") : \A old \in Committed(db, "artifacts") :
              (new.by = By(p) /\ old.id = new.id) => new.time > old.time]_vars

----------------------------------------------------------------------------
(* Base types.  The store holds the artifact types "mlmd.Model" and        *)
(* "mlmd.Dataset"; PutArtifactType calls upsert the type "T" with a        *)
(* base_type, one call after the other.                                    *)

BaseStore ==
  [EmptyDb EXCEPT
     !.types = {TypeRow(1, "artifact", "mlmd.Model"), TypeRow(2, "artifact", "mlmd.Dataset")}]

BaseCalls ==
  {PutTypeRequest("PutArtifactType", Type("T", "", props, base), can_add, TRUE) :
     props \in {Pu, Puw}, base \in {"MODEL", "DATASET", "UNSET"}, can_add \in BOOLEAN}
  \cup {PutTypeRequest("PutArtifactType", Type("T", "", Pu, ""), TRUE, TRUE)}

\* A call starts when no other call is running.
Call_BaseInTurn(p) ==
  /\ \A q \in Procs : proc[q].pc \in {"idle", "done"}
  /\ Sum([q \in Procs |-> proc[q].started], Procs) < MaxSeqCalls
  /\ \E call \in BaseCalls :
       proc' = [proc EXCEPT ![p] = Started(p, call.op, TypeItemLabel(call.req, 1), call.req,
                                           [type_ids |-> <<>>])]
  /\ UNCHANGED <<db, hist, now>>

InitBase ==
  /\ db = BaseStore
  /\ proc = [p \in Procs |-> Idle]
  /\ hist = <<>>
  /\ now = 1

NextBaseSeq ==
  \E p \in Writers :
    \/ Call_BaseInTurn(p)
    \/ UpsertType_Step(p)

SpecBaseSeq == InitBase /\ [][NextBaseSeq]_vars

\* The calls that returned OK so far with the request req.
Returned(req) == SelectSeq(hist, LAMBDA c : c.req = req)

\* The stored parent links of the type type_id in the store d.
ParentLinksOf(d, type_id) == {l \in Committed(d, "parentTypes") : l.type_id = type_id}

\* C13: base-type link idempotence.  When a PutArtifactType request that
\* names a base type has returned OK before, every later call with the same
\* request, one after the other, returns OK with the same type_id, and the
\* type then has exactly one ParentType row.
BaseLinkIdempotent ==
  [][\A p \in Procs :
       LET before == Returned(proc[p].req) IN
       (/\ proc[p].op = "PutArtifactType"
        /\ proc[p].pc \notin {"idle", "done"} /\ proc'[p].pc = "done"
        /\ proc[p].req.artifact_types[1].base_type \in DOMAIN SystemTypeName
        /\ before # <<>>)
         => /\ proc'[p].status = "OK"
            /\ proc'[p].resp.type_ids = <<before[1].type_id>>
            /\ Cardinality(ParentLinksOf(db', before[1].type_id)) = 1]_vars

\* The same request with base_type MODEL has returned OK three times.
SameBaseThrice ==
  \E p \in Procs :
    /\ proc[p].op = "PutArtifactType" /\ proc[p].pc = "done" /\ proc[p].status = "OK"
    /\ proc[p].req.artifact_types[1].base_type = "MODEL"
    /\ Len(Returned(proc[p].req)) = 3

\* The request asks for another base type than the parents, or for none.
DifferentBase(base_type, parents) ==
  \/ base_type = "UNSET"
  \/ /\ base_type \in DOMAIN SystemTypeName
     /\ \E t \in parents : t.name # SystemTypeName[base_type]

\* The upsert p is finishing is of a stored type with a parent, consistent
\* with its stored properties, and asks for another base type.
UpsertsDifferentBase(p) ==
  /\ proc[p].op = "PutArtifactType"
  /\ proc[p].pc \notin {"idle", "done"}
  /\ LET type == proc[p].req.artifact_types[1] IN
     \E stored_type \in FindTypeByNameAndVersion(db, 0, "artifact", type.name, type.version) :
       /\ ParentLinksOf(db, stored_type.id) # {}
       /\ ~Inconsistent(stored_type, type, proc[p].req.can_add_fields,
                        proc[p].req.can_omit_fields)
       /\ DifferentBase(type.base_type, FindParentTypesByTypeId(db, 0, stored_type.id))

----------------------------------------------------------------------------
(* Concurrent PutArtifactType calls that upsert the stored type "T" with a *)
(* base_type.                                                              *)

BaseRaceStore == [BaseStore EXCEPT !.types = @ \cup {TypeRow(3, "artifact", "T")}]

InitBaseRace ==
  /\ db = BaseRaceStore
  /\ proc = [p \in Procs |-> Idle]
  /\ hist = <<>>
  /\ now = 1

RaceBaseCalls ==
  {PutTypeRequest("PutArtifactType", Type(name, "", NoProperties, base), TRUE, TRUE) :
     name \in {"T", "N"}, base \in {"MODEL", "DATASET"}}

NextBase ==
  \E p \in Writers :
    \/ Call_PutType(p, RaceBaseCalls)
    \/ UpsertType_Step(p)

SpecBase == InitBaseRace /\ [][NextBase]_vars

\* C15: in every reachable state each type has at most one ParentType link,
\* under any interleaving of concurrent Put*Type calls for the same type
\* that request base types.
AtMostOneParent ==
  \A t \in Committed(db, "types") : Cardinality(ParentLinksOf(db, t.id)) <= 1

----------------------------------------------------------------------------
(* Requests that the type writes and PutExecution refuse.  The store holds *)
(* the recorded step and the artifact type "mlmd.Model".                   *)

RefusalStore ==
  [RecordedStep EXCEPT !.types = @ \cup {TypeRow(4, "artifact", "mlmd.Model")}]

RefusedTypeCalls ==
  {PutTypeRequest("PutArtifactType", Type(name, "", Pu, base), TRUE, TRUE) :
     name \in {"A", "T"}, base \in {"MODEL", "UNSET"}}
  \cup {NoFieldsMatch(PutTypeRequest("PutArtifactType", Type("T", "", Pu, ""), TRUE, TRUE)),
        PutTypeRequest("PutContextType", Type("", "", Pu, ""), TRUE, TRUE),
        [op |-> "PutTypes",
         req |-> PutTypesRequest(<<Type("T", "", Pu, "")>>, <<>>, <<Type("", "", Pu, "")>>,
                                 TRUE, TRUE)],
        NoFieldsMatch([op |-> "PutTypes",
                       req |-> PutTypesRequest(<<Type("T", "", Pu, "")>>, <<>>, <<>>,
                                               TRUE, TRUE)])}

RefusedExecutionRequests ==
  {PutExecutionRequest(FALSE, NoNode, <<OutputPair>>, <<>>, FALSE)}
  \cup {PutExecutionRequest(TRUE, NewExecution, <<ae>>, <<>>, FALSE) :
          ae \in {OutputPair,
                  ArtifactAndEvent(TRUE, NewArtifact, TRUE, Event({}, {1})),
                  ArtifactAndEvent(FALSE, NoNode, TRUE, Event({}, {}))}}
  \cup {PutExecutionRequest(TRUE, NewExecution, <<OutputPair>>, <<NewContext>>, reuse) :
          reuse \in BOOLEAN}

InitRefusal ==
  /\ db = RefusalStore
  /\ proc = [p \in Procs |-> Idle]
  /\ hist = <<>>
  /\ now = 1

NextRefusal ==
  \E p \in Writers :
    \/ Call_PutType(p, RefusedTypeCalls)
    \/ Call_PutExecution(p, RefusedExecutionRequests)
    \/ UT_Find(p)
    \/ UT_Create(p)
    \/ UT_Update(p)
    \/ UT_Link(p)
    \/ UT_LinkCreate(p)
    \/ PE_Execution(p)
    \/ PE_Pair(p)
    \/ PE_Context(p)
    \/ PE_CtxUpsert(p)
    \/ PE_Links(p)
    \/ TxCommit(p)

SpecRefusal == InitRefusal /\ [][NextRefusal]_vars

\* This step is the return of a type write or of PutExecution with
\* INVALID_ARGUMENT or UNIMPLEMENTED.
ReturnsRefusal(p) ==
  /\ proc'[p].op \in PutTypeOps \cup {"PutTypes", "PutExecution"}
  /\ proc'[p].pc = "done"
  /\ proc[p].pc # "done" \/ proc'[p].calls # proc[p].calls
  /\ proc'[p].status \in {"INVALID_ARGUMENT", "UNIMPLEMENTED"}

\* The transaction of p has written.
HasWritten(p) == \E t \in Tables : \E r \in db[t] : r.tx = p

\* C16 as stated: validation errors precede writes.  Whenever Put*Type,
\* PutTypes or PutExecution returns INVALID_ARGUMENT or UNIMPLEMENTED, the
\* call had written nothing through the Access Object when the outcome was
\* decided.
RefusalPrecedesWrites ==
  [][\A p \in Procs : ReturnsRefusal(p) => ~HasWritten(p)]_vars

\* C16: whenever Put*Type, PutTypes or PutExecution returns INVALID_ARGUMENT
\* or UNIMPLEMENTED, nothing the call wrote is stored afterwards: the return
\* removes exactly the rows the call wrote.  The outcome is decided before
\* any write when all_fields_match is false and when PutExecution has no
\* execution.
RefusalLeavesNoWrite ==
  [][\A p \in Procs :
       ReturnsRefusal(p) =>
         /\ \A t \in Tables : db'[t] = {r \in db[t] : r.tx # p}
         /\ (\/ proc'[p].op # "PutExecution" /\ ~proc'[p].req.all_fields_match
             \/ proc'[p].op = "PutExecution" /\ ~proc'[p].req.has_execution)
              => ~HasWritten(p)]_vars

\* PutArtifactType of the stored type "A" with the new property "u" and
\* base_type UNSET has returned UNIMPLEMENTED, and "u" is not stored.
RefusedAfterUpdate ==
  \E p \in Procs :
    /\ proc[p].op = "PutArtifactType" /\ proc[p].pc = "done"
    /\ proc[p].status = "UNIMPLEMENTED"
    /\ proc[p].req.all_fields_match
    /\ proc[p].req.artifact_types[1] = Type("A", "", Pu, "UNSET")
    /\ Committed(db, "typeProps") = {}

----------------------------------------------------------------------------
(* Reads.  Every Get method runs one closure that reads the store and      *)
(* fills the response; the response of the model is the set of the nodes   *)
(* or types found.                                                         *)

\* A stored node without the columns of the storage.
Found(r) == [id |-> r.id, type_id |-> r.type_id, name |-> r.name, val |-> r.val,
             time |-> r.time]

\* FindTypeById: the stored types of the kind with that id (none: NOT_FOUND).
FindTypeById(d, p, kind, type_id) ==
  {StoredType(d, p, row) : row \in {r \in View(d, p, "types") : r.kind = kind /\ r.id = type_id}}

\* FindTypeIdByNameAndVersion (none: NOT_FOUND).
FindTypeIdByNameAndVersion(d, p, kind, name, version) ==
  {type.id : type \in FindTypeByNameAndVersion(d, p, kind, name, version)}

\* FindArtifactsById / FindExecutionsById / FindContextsById for a list of
\* ids (one of them unknown: NOT_FOUND, with the nodes found).
FindNodesById(d, p, t, ids) == {Found(r) : r \in {x \in View(d, p, t) : x.id \in ids}}

\* FindArtifactsByTypeId and its like (none: NOT_FOUND).
FindNodesByTypeId(d, p, t, type_id) ==
  {Found(r) : r \in {x \in View(d, p, t) : x.type_id = type_id}}

\* FindArtifactByTypeIdAndArtifactName and its like (none: NOT_FOUND).
FindNodeByTypeIdAndName(d, p, t, type_id, name) ==
  {Found(r) : r \in {x \in View(d, p, t) : x.type_id = type_id /\ x.name = name}}

\* FindContextsByArtifact: the contexts the artifact is attributed to.
FindContextsByArtifact(d, p, artifact_id) ==
  {Found(c) : c \in {x \in View(d, p, "contexts") :
                       \E a \in View(d, p, "attributions") :
                         a.artifact_id = artifact_id /\ a.context_id = x.id}}

\* FindContextsByExecution: the contexts the execution is associated with.
FindContextsByExecution(d, p, execution_id) ==
  {Found(c) : c \in {x \in View(d, p, "contexts") :
                       \E a \in View(d, p, "associations") :
                         a.execution_id = execution_id /\ a.context_id = x.id}}

\* FindArtifactsByContext / FindExecutionsByContext.
FindNodesByContext(d, p, t, context_id) ==
  IF t = "artifacts"
    THEN {Found(n) : n \in {x \in View(d, p, t) :
                              \E a \in View(d, p, "attributions") :
                                a.context_id = context_id /\ a.artifact_id = x.id}}
    ELSE {Found(n) : n \in {x \in View(d, p, t) :
                              \E a \in View(d, p, "associations") :
                                a.context_id = context_id /\ a.execution_id = x.id}}

\* FindParentContextsByContextId / FindChildContextsByContextId (none:
\* NOT_FOUND).
FindParentContextsByContextId(d, p, context_id) ==
  {Found(c) : c \in {x \in View(d, p, "contexts") :
                       \E l \in View(d, p, "parentContexts") :
                         l.child_id = context_id /\ l.parent_id = x.id}}

FindChildContextsByContextId(d, p, context_id) ==
  {Found(c) : c \in {x \in View(d, p, "contexts") :
                       \E l \in View(d, p, "parentContexts") :
                         l.parent_id = context_id /\ l.child_id = x.id}}

\* FindEventsByArtifacts / FindEventsByExecutions (none: NOT_FOUND).
FindEvents(d, p, column, ids) ==
  {Event({e.artifact_id}, {e.execution_id}) :
     e \in {x \in View(d, p, "events") : x[column] \in ids}}

\* GetSystemTypeEnum: the enum value of a simple type's name, none for a
\* name that is not a simple type's.
SystemTypeEnum(name) == {b \in DOMAIN SystemTypeName : SystemTypeName[b] = name}

\* A type of a response.
TypeFound(type, base_type) ==
  [id |-> type.id, name |-> type.name, version |-> type.version,
   properties |-> type.properties, base_type |-> base_type]

\* SetBaseType leaving every base_type unset.
SetBaseTypeSkipped(d, p, types) ==
  [st |-> "OK", resp |-> {TypeFound(type, "") : type \in types}]

\* SetBaseType: base_type of every type from its ParentType link.
SetBaseType(d, p, types) ==
  IF \E type \in types :
       \/ Cardinality(FindParentTypesByTypeId(d, p, type.id)) > 1
       \/ \E parent_type \in FindParentTypesByTypeId(d, p, type.id) :
            SystemTypeEnum(parent_type.name) = {}
    THEN [st |-> "FAILED_PRECONDITION", resp |-> {}]
  ELSE [st |-> "OK",
        resp |-> {TypeFound(type,
                            IF FindParentTypesByTypeId(d, p, type.id) = {} THEN ""
                            ELSE CHOOSE b \in DOMAIN SystemTypeName :
                                   \E parent_type \in FindParentTypesByTypeId(d, p, type.id) :
                                     SystemTypeName[b] = parent_type.name) :
                    type \in types}]

\* kSimpleTypeNames: the names of the simple types.
SimpleTypeNames ==
  {SimpleTypes.artifact_types[k].name : k \in 1..Len(SimpleTypes.artifact_types)}
    \cup {SimpleTypes.execution_types[k].name : k \in 1..Len(SimpleTypes.execution_types)}

\* The Get methods by the kind of type, or the table, they read.
TypeReads ==
  [GetArtifactType |-> "artifact", GetExecutionType |-> "execution",
   GetContextType |-> "context"]

TypesByIDReads ==
  [GetArtifactTypesByID |-> "artifact", GetExecutionTypesByID |-> "execution",
   GetContextTypesByID |-> "context"]

TypesReads ==
  [GetArtifactTypes |-> "artifact", GetExecutionTypes |-> "execution",
   GetContextTypes |-> "context"]

ByIDReads ==
  [GetArtifactsByID |-> "artifacts", GetExecutionsByID |-> "executions",
   GetContextsByID |-> "contexts"]

ListReads ==
  [GetArtifacts |-> "artifacts", GetExecutions |-> "executions", GetContexts |-> "contexts"]

ByTypeReads ==
  [GetArtifactsByType |-> "artifacts", GetExecutionsByType |-> "executions",
   GetContextsByType |-> "contexts"]

ByTypeAndNameReads ==
  [GetArtifactByTypeAndName |-> "artifacts", GetExecutionByTypeAndName |-> "executions",
   GetContextByTypeAndName |-> "contexts"]

ByContextReads ==
  [GetArtifactsByContext |-> "artifacts", GetExecutionsByContext |-> "executions"]

\* The closure of a Get method other than GetLineageGraph: its status and
\* its response.
Read(d, p, op, request) ==
  CASE op \in DOMAIN TypeReads ->
         LET types == FindTypeByNameAndVersion(d, p, TypeReads[op], request.type_name,
                                               request.type_version)
         IN IF types = {} THEN [st |-> "NOT_FOUND", resp |-> {}]
            ELSE IF op = "GetContextType"
              THEN [st |-> "OK", resp |-> {TypeFound(type, "") : type \in types}]
            ELSE SetBaseType(d, p, types)
    [] op \in DOMAIN TypesByIDReads ->
         LET types == UNION {FindTypeById(d, p, TypesByIDReads[op], type_id) :
                               type_id \in request.type_ids}
         IN IF op = "GetContextTypesByID"
              THEN [st |-> "OK", resp |-> {TypeFound(type, "") : type \in types}]
            ELSE SetBaseType(d, p, types)
    [] op \in DOMAIN TypesReads ->
         LET types == {StoredType(d, p, row) :
                         row \in {r \in View(d, p, "types") : r.kind = TypesReads[op]}}
             listed == {type \in types : type.name \notin SimpleTypeNames}
         IN IF op = "GetContextTypes"
              THEN [st |-> "OK", resp |-> {TypeFound(type, "") : type \in types}]
            ELSE SetBaseType(d, p, listed)
    [] op \in DOMAIN ByIDReads ->
         [st |-> "OK", resp |-> FindNodesById(d, p, ByIDReads[op], request.ids)]
    [] op \in DOMAIN ListReads ->
         [st |-> "OK", resp |-> {Found(r) : r \in View(d, p, ListReads[op])}]
    [] op \in DOMAIN ByTypeReads ->
         [st |-> "OK",
          resp |-> UNION {FindNodesByTypeId(d, p, ByTypeReads[op], type_id) :
                            type_id \in FindTypeIdByNameAndVersion(
                                          d, p, TypeKindOf[ByTypeReads[op]],
                                          request.type_name, request.type_version)}]
    [] op \in DOMAIN ByTypeAndNameReads ->
         [st |-> "OK",
          resp |-> UNION {FindNodeByTypeIdAndName(d, p, ByTypeAndNameReads[op], type_id,
                                                  request.name) :
                            type_id \in FindTypeIdByNameAndVersion(
                                          d, p, TypeKindOf[ByTypeAndNameReads[op]],
                                          request.type_name, request.type_version)}]
    [] op = "GetContextsByArtifact" ->
         [st |-> "OK", resp |-> FindContextsByArtifact(d, p, request.id)]
    [] op = "GetContextsByExecution" ->
         [st |-> "OK", resp |-> FindContextsByExecution(d, p, request.id)]
    [] op \in DOMAIN ByContextReads ->
         [st |-> "OK", resp |-> FindNodesByContext(d, p, ByContextReads[op], request.id)]
    [] op = "GetParentContextsByContext" ->
         [st |-> "OK", resp |-> FindParentContextsByContextId(d, p, request.id)]
    [] op = "GetChildrenContextsByContext" ->
         [st |-> "OK", resp |-> FindChildContextsByContextId(d, p, request.id)]
    [] op = "GetEventsByArtifactIDs" ->
         [st |-> "OK", resp |-> FindEvents(d, p, "artifact_id", request.ids)]
    [] op = "GetEventsByExecutionIDs" ->
         [st |-> "OK", resp |-> FindEvents(d, p, "execution_id", request.ids)]

ReadOps ==
  DOMAIN TypeReads \cup DOMAIN TypesByIDReads \cup DOMAIN TypesReads \cup DOMAIN ByIDReads
    \cup DOMAIN ListReads \cup DOMAIN ByTypeReads \cup DOMAIN ByTypeAndNameReads
    \cup DOMAIN ByContextReads
    \cup {"GetContextsByArtifact", "GetContextsByExecution", "GetParentContextsByContext",
          "GetChildrenContextsByContext", "GetEventsByArtifactIDs",
          "GetEventsByExecutionIDs"}

\* The closure of a Get method: response->Clear(), the read, and the return
\* of its status to the executor.
Get_Read(p) ==
  /\ proc[p].op \in ReadOps /\ proc[p].pc = "read"
  /\ LET r == Read(db, p, proc[p].op, proc[p].req) IN
     /\ db' = Execute(db, p, r.st)
     /\ proc' = [proc EXCEPT ![p].pc = "done", ![p].status = r.st, ![p].resp = r.resp]
  /\ UNCHANGED <<hist, now>>

Call_Get(p, calls) ==
  /\ CanCall(p)
  /\ \E call \in calls :
       proc' = [proc EXCEPT ![p] = Started(p, call.op, "read", call.req, {})]
  /\ UNCHANGED <<db, hist, now>>

----------------------------------------------------------------------------
(* Reads of stored and of absent entities.  The store holds the recorded   *)
(* step and an artifact, an execution and a context without links.         *)

NameRequest(type_name, name) == [type_name |-> type_name, type_version |-> "", name |-> name]

ReadCalls ==
  {[op |-> op, req |-> NameRequest(type_name, "")] :
     op \in DOMAIN TypeReads \cup DOMAIN ByTypeReads, type_name \in {"A", "C", "Z"}}
  \cup {[op |-> op, req |-> NameRequest(type_name, name)] :
          op \in DOMAIN ByTypeAndNameReads, type_name \in {"C", "Z"}, name \in {"c0", "zz"}}
  \cup {[op |-> op, req |-> [type_ids |-> ids]] :
          op \in DOMAIN TypesByIDReads, ids \in {{1, 2, 3}, {9}}}
  \cup {[op |-> op, req |-> [ids |-> ids]] :
          op \in DOMAIN ByIDReads \cup {"GetEventsByArtifactIDs", "GetEventsByExecutionIDs"},
          ids \in {{1, 9}, {9}}}
  \cup {[op |-> op, req |-> <<>>] : op \in DOMAIN TypesReads \cup DOMAIN ListReads}
  \cup {[op |-> op, req |-> [id |-> id]] :
          op \in DOMAIN ByContextReads
                   \cup {"GetContextsByArtifact", "GetContextsByExecution",
                         "GetParentContextsByContext", "GetChildrenContextsByContext"},
          id \in {1, 2, 9}}

NextReads ==
  \E p \in Writers :
    \/ Call_Get(p, ReadCalls)
    \/ Get_Read(p)

SpecReads == InitRelink /\ [][NextReads]_vars

\* The entity that the read asks for is not stored.
Absent(op, request) ==
  CASE op \in DOMAIN TypeReads ->
         ~\E r \in Committed(db, "types") :
            r.kind = TypeReads[op] /\ r.name = request.type_name
            /\ r.version = request.type_version
    [] op \in DOMAIN TypesByIDReads ->
         ~\E r \in Committed(db, "types") :
            r.kind = TypesByIDReads[op] /\ r.id \in request.type_ids
    [] op \in DOMAIN ByIDReads ->
         ~\E r \in Committed(db, ByIDReads[op]) : r.id \in request.ids
    [] op \in DOMAIN ByTypeReads ->
         ~\E r \in Committed(db, "types") :
            r.kind = TypeKindOf[ByTypeReads[op]] /\ r.name = request.type_name
    [] op \in DOMAIN ByTypeAndNameReads ->
         ~\E r \in Committed(db, "types") :
            r.kind = TypeKindOf[ByTypeAndNameReads[op]] /\ r.name = request.type_name
    [] op = "GetContextsByArtifact" ->
         ~\E r \in Committed(db, "attributions") : r.artifact_id = request.id
    [] op = "GetContextsByExecution" ->
         ~\E r \in Committed(db, "associations") : r.execution_id = request.id
    [] OTHER -> FALSE

\* C18: every read other than GetLineageGraph returns OK with an empty
\* response, never an error, when the entity it asks for is not stored:
\* Get{Artifact,Execution,Context}Type for a (name, version) without a
\* stored type, Get*ByID for unknown ids, Get*ByType and Get*ByTypeAndName
\* for an unknown type, GetContextsByArtifact and GetContextsByExecution for
\* an id without contexts.
AbsentReadsAreEmpty ==
  \A p \in Procs :
    (proc[p].op \in ReadOps /\ proc[p].pc = "done" /\ Absent(proc[p].op, proc[p].req))
      => proc[p].status = "OK" /\ proc[p].resp = {}

----------------------------------------------------------------------------
(* GetLineageGraph.  The filter of artifacts_options is the set of the ids *)
(* of the artifacts it selects; max_num_hops is a set, empty when the      *)
(* field is not given.                                                     *)

kMaxDistance == 20

\* The hop limit that GetLineageGraph passes to QueryLineageGraph.
MaxNumHopsAsRequested(request) ==
  IF request.max_num_hops = {} THEN kMaxDistance
  ELSE CHOOSE n \in request.max_num_hops : TRUE

MaxNumHops(request) ==
  IF request.max_num_hops = {} THEN kMaxDistance
  ELSE LET n == CHOOSE k \in request.max_num_hops : TRUE IN
       IF n < kMaxDistance THEN n ELSE kMaxDistance

\* LineageRefused without the check of max_num_hops.
LineageRefusedWithoutOptions(request) == ~request.has_artifacts_options

\* The request is refused before a transaction is opened.
LineageRefused(request) ==
  \/ ~request.has_artifacts_options
  \/ \E n \in request.max_num_hops : n < 0

\* ListArtifacts: the ids of the artifacts the filter selects, in the order
\* of their ids.
RECURSIVE Ascending(_)
Ascending(ids) ==
  IF ids = {} THEN <<>>
  ELSE LET least == CHOOSE k \in ids : \A j \in ids : k <= j IN
       <<least>> \o Ascending(ids \ {least})

ListArtifacts(d, p, options) ==
  Ascending({r.id : r \in {x \in View(d, p, "artifacts") : x.id \in options}})

\* The nodes one event away from the nodes given.
Neighbours(d, p, nodes) ==
  {<<"execution", e.execution_id>> :
     e \in {x \in View(d, p, "events") : <<"artifact", x.artifact_id>> \in nodes}}
  \cup {<<"artifact", e.artifact_id>> :
          e \in {x \in View(d, p, "events") : <<"execution", x.execution_id>> \in nodes}}

\* QueryLineageGraph: the nodes within max_num_hops events of the seeds.
RECURSIVE Expand(_, _, _, _)
Expand(d, p, nodes, max_num_hops) ==
  IF max_num_hops = 0 \/ Neighbours(d, p, nodes) \subseteq nodes THEN nodes
  ELSE Expand(d, p, nodes \cup Neighbours(d, p, nodes), max_num_hops - 1)

QueryLineageGraph(d, p, artifacts, max_num_hops) ==
  LET nodes == Expand(d, p, {<<"artifact", artifacts[k]>> : k \in 1..Len(artifacts)},
                      max_num_hops)
  IN [artifacts |-> {n[2] : n \in {x \in nodes : x[1] = "artifact"}},
      executions |-> {n[2] : n \in {x \in nodes : x[1] = "execution"}}]

NoSubgraph == [artifacts |-> {}, executions |-> {}]

\* The entry of GetLineageGraph: the checks of the request and the hop limit.
Call_GetLineageGraph(p, requests) ==
  /\ proc[p].pc = "idle"
  /\ \E request \in requests :
       proc' = [proc EXCEPT ![p] =
                  IF LineageRefused(request)
                    THEN [Started(p, "GetLineageGraph", "done", request, NoSubgraph)
                            EXCEPT !.status = "INVALID_ARGUMENT", !.transactions = 0]
                    ELSE [Started(p, "GetLineageGraph", "GLG_query", request, NoSubgraph)
                            EXCEPT !.loc = [max_num_hops |-> MaxNumHops(request)]]]
  /\ UNCHANGED <<db, hist, now>>

\* The seeds kept whatever max_node_size says.
SeedsUntruncated(listed, max_node_size) == listed

\* The listed artifacts that the expansion starts from.
Seeds(listed, max_node_size) ==
  IF max_node_size > 0 /\ Len(listed) > max_node_size
    THEN SubSeq(listed, 1, max_node_size)
    ELSE listed

\* The closure of GetLineageGraph; loc.artifacts is its vector of seeds.
GLG_Query(p) ==
  /\ proc[p].op = "GetLineageGraph" /\ proc[p].pc = "GLG_query"
  /\ LET request == proc[p].req
         listed == ListArtifacts(db, p, request.artifacts_options)
         artifacts == Seeds(listed, request.max_node_size)
     IN
     IF listed = <<>> THEN Fail(p, "NOT_FOUND")
     ELSE /\ db' = Execute(db, p, "OK")
          /\ proc' = [proc EXCEPT ![p].pc = "done", ![p].status = "OK",
                                  ![p].loc = [max_num_hops |-> proc[p].loc.max_num_hops,
                                              artifacts |-> artifacts],
                                  ![p].resp = QueryLineageGraph(db, p, artifacts,
                                                                proc[p].loc.max_num_hops)]
          /\ UNCHANGED <<hist, now>>

\* The stored graph: a chain of artifacts and executions, artifact k being
\* the input of execution k and artifact k + 1 its output.
ChainArtifacts == 12

Chain(n) ==
  [EmptyDb EXCEPT
     !.types = {TypeRow(1, "artifact", "A"), TypeRow(2, "execution", "E")},
     !.artifacts = {NodeRow(k, 1, "") : k \in 1..n},
     !.executions = {NodeRow(k, 2, "") : k \in 1..(n - 1)},
     !.events = {[id |-> 2 * k - 1, artifact_id |-> k, execution_id |-> k, tx |-> 0,
                  by |-> <<0, 0>>] : k \in 1..(n - 1)}
                \cup {[id |-> 2 * k, artifact_id |-> k + 1, execution_id |-> k, tx |-> 0,
                       by |-> <<0, 0>>] : k \in 1..(n - 1)}]

GetLineageGraphRequest(has_artifacts_options, artifacts_options, max_num_hops, max_node_size) ==
  [has_artifacts_options |-> has_artifacts_options, artifacts_options |-> artifacts_options,
   max_num_hops |-> max_num_hops, max_node_size |-> max_node_size]

LineageRequests ==
  {GetLineageGraphRequest(TRUE, seeds, hops, size) :
     seeds \in {{1}, {1, ChainArtifacts}, {6}, {99}},
     hops \in {{}, {-1}, {0}, {1}, {kMaxDistance}, {kMaxDistance + 1}, {100}},
     size \in {0, 1}}
  \cup {GetLineageGraphRequest(FALSE, {}, {}, 0)}

InitLineage ==
  /\ db \in {Chain(n) : n \in 1..ChainArtifacts}
  /\ proc = [p \in Procs |-> Idle]
  /\ hist = <<>>
  /\ now = 1

NextLineage ==
  \E p \in Writers :
    \/ Call_GetLineageGraph(p, LineageRequests)
    \/ GLG_Query(p)

SpecLineage == InitLineage /\ [][NextLineage]_vars

\* The place of a node on the chain, counted in events from artifact 1.
Place(kind, id) == IF kind = "artifact" THEN 2 * (id - 1) ELSE 2 * id - 1

\* The nodes a and b of the chain are at most hops events apart.
Near(a, b, hops) == a - b <= hops /\ b - a <= hops

\* C20: lineage bound.  Every node of the subgraph that GetLineageGraph
\* returns with OK is within min(max_num_hops, 20) events, 20 when
\* max_num_hops is not given, of an artifact that the filter selects.
LineageBound ==
  \A p \in Procs :
    (proc[p].op = "GetLineageGraph" /\ proc[p].pc = "done" /\ proc[p].status = "OK")
      => LET request == proc[p].req
             bound == IF request.max_num_hops = {} THEN 20
                      ELSE IF \E n \in request.max_num_hops : n < 20
                        THEN CHOOSE n \in request.max_num_hops : TRUE
                      ELSE 20
             seeds == {r.id : r \in Committed(db, "artifacts")} \cap request.artifacts_options
         IN /\ \A a \in proc[p].resp.artifacts :
                 \E seed \in seeds :
                   Near(Place("artifact", a), Place("artifact", seed), bound)
            /\ \A e \in proc[p].resp.executions :
                 \E seed \in seeds :
                   Near(Place("execution", e), Place("artifact", seed), bound)

\* On a chain of twelve artifacts, a request from artifact 1 with
\* max_num_hops 100 returned artifact 11, twenty events away, and not
\* artifact 12.
ClampedAtTwenty ==
  \E p \in Procs :
    /\ proc[p].op = "GetLineageGraph" /\ proc[p].pc = "done" /\ proc[p].status = "OK"
    /\ proc[p].req.max_num_hops = {100} /\ proc[p].req.artifacts_options = {1}
    /\ 11 \in proc[p].resp.artifacts
    /\ 12 \notin proc[p].resp.artifacts
    /\ \E r \in Committed(db, "artifacts") : r.id = 12

----------------------------------------------------------------------------
(* The transactions of the public methods: the number of Execute calls of  *)
(* one call of a method, for writes, reads, the Init methods and           *)
(* GetLineageGraph, on the store of the refused requests.                  *)

\* InitMetadataSource / InitMetadataSourceIfNotExists returns an error: the
\* Init method returns it without its second closure.
Init_SourceFails(p) ==
  /\ proc[p].op \in {"InitMetadataStore", "InitMetadataStoreIfNotExists"}
  /\ proc[p].pc = "init_source"
  /\ Fail(p, "INTERNAL")

CountedReadCalls ==
  {c \in ReadCalls : c.op \in {"GetArtifactType", "GetContextsByArtifact", "GetArtifactsByID"}}

CountedLineageRequests ==
  {GetLineageGraphRequest(FALSE, {}, {}, 0),
   GetLineageGraphRequest(TRUE, {1}, {-1}, 0),
   GetLineageGraphRequest(TRUE, {1}, {1}, 0),
   GetLineageGraphRequest(TRUE, {99}, {}, 0)}

NextCounted ==
  \E p \in Writers :
    \/ Call_Init(p)
    \/ Init_Source(p)
    \/ Init_SourceFails(p)
    \/ Call_PutType(p, RefusedTypeCalls)
    \/ Call_PutExecution(p, RefusedExecutionRequests)
    \/ Call_Batch(p, RelinkCalls)
    \/ Call_Get(p, CountedReadCalls)
    \/ Call_GetLineageGraph(p, CountedLineageRequests)
    \/ UT_Find(p)
    \/ UT_Create(p)
    \/ UT_Update(p)
    \/ UT_Link(p)
    \/ UT_LinkCreate(p)
    \/ PE_Execution(p)
    \/ PE_Pair(p)
    \/ PE_Context(p)
    \/ PE_CtxUpsert(p)
    \/ PE_Links(p)
    \/ PAA_Attribution(p)
    \/ PAA_Association(p)
    \/ PutParentContexts_Item(p)
    \/ Get_Read(p)
    \/ GLG_Query(p)
    \/ TxCommit(p)

SpecCounted == InitRefusal /\ [][NextCounted]_vars

RefusedBeforeExecute(p) ==
  \/ proc[p].op \in PutTypeOps \cup {"PutTypes"} /\ ~proc[p].req.all_fields_match
  \/ proc[p].op = "GetLineageGraph"
       /\ (\/ ~proc[p].req.has_artifacts_options
           \/ \E n \in proc[p].req.max_num_hops : n < 0)

----------------------------------------------------------------------------
(* A write executed a second time.  Caller 1 runs a write; when it has     *)
(* returned, caller 2 runs the same write with the same request.           *)

AgainCalls ==
  BatchCalls \cup RelinkCalls
  \cup {[op |-> "PutArtifacts",
         req |-> [artifacts |-> <<Timed(n, 0)>>,
                  abort_if_latest_updated_time_changed |-> FALSE]] :
          n \in {NewArtifact, StoredArtifact}}
  \cup {[op |-> "PutExecution", req |-> req] : req \in RefusedExecutionRequests}

StartedCall(p, call) ==
  IF call.op = "PutExecution"
    THEN Started(p, call.op, "PE_execution", call.req, ClearedPutExecutionResponse)
    ELSE Started(p, call.op, FirstLabel(call), call.req, ClearedResponse(call.op))

Call_First(p) ==
  /\ p = 1 /\ proc[p].pc = "idle"
  /\ \E call \in AgainCalls : proc' = [proc EXCEPT ![p] = StartedCall(p, call)]
  /\ UNCHANGED <<db, hist, now>>

Call_Again(p) ==
  /\ p = 2 /\ proc[p].pc = "idle" /\ proc[1].pc = "done"
  /\ proc' = [proc EXCEPT ![p] = StartedCall(p, [op |-> proc[1].op, req |-> proc[1].req])]
  /\ UNCHANGED <<db, hist, now>>

NextAgain ==
  \E p \in Writers :
    \/ Call_First(p)
    \/ Call_Again(p)
    \/ Batch_Step(p)
    \/ PE_Execution(p)
    \/ PE_Pair(p)
    \/ PE_Context(p)
    \/ PE_CtxUpsert(p)
    \/ PE_Links(p)

SpecAgain == InitBatch /\ [][NextAgain]_vars

\* The committed rows of a table, without the marks of their writers.
StoredRows(d, t) ==
  {[f \in DOMAIN r \ {"tx", "by"} |-> r[f]] : r \in Committed(d, t)}

\* C19: write closures are idempotent on retry.  When the second execution
\* of a write with the same request returns, it returns the status of the
\* first execution and the stored rows of every table are those that the
\* first execution left.
SecondExecutionSame ==
  [][(proc[2].pc \notin {"idle", "done"} /\ proc'[2].pc = "done")
       => /\ proc'[2].status = proc[1].status
          /\ \A t \in Tables : StoredRows(db', t) = StoredRows(db, t)]_vars

----------------------------------------------------------------------------
\* C21: the hop limit.  A GetLineageGraph call with a negative max_num_hops
\* returns INVALID_ARGUMENT without a transaction and with an empty
\* response; a call that reaches its closure passes 20 when max_num_hops is
\* not given and the smaller of max_num_hops and 20 when it is given, and
\* the limit passed is in 0..20.
HopLimit ==
  \A p \in Procs :
    (proc[p].op = "GetLineageGraph" /\ proc[p].pc # "idle")
      => LET request == proc[p].req IN
         IF \E n \in request.max_num_hops : n < 0
           THEN /\ proc[p].pc = "done" /\ proc[p].status = "INVALID_ARGUMENT"
                /\ proc[p].transactions = 0 /\ proc[p].resp = NoSubgraph
         ELSE request.has_artifacts_options
                => /\ proc[p].loc.max_num_hops \in 0..20
                   /\ request.max_num_hops = {} => proc[p].loc.max_num_hops = 20
                   /\ \A n \in request.max_num_hops :
                        /\ n <= 20 => proc[p].loc.max_num_hops = n
                        /\ n > 20 => proc[p].loc.max_num_hops = 20

\* A request with max_num_hops 0 was accepted, ran with the limit 0 and
\* returned its seed alone; a request with max_num_hops -1 was refused.
ZeroHopsAccepted ==
  \E p, q \in Procs :
    /\ proc[p].op = "GetLineageGraph" /\ proc[p].pc = "done" /\ proc[p].status = "OK"
    /\ proc[p].req.max_num_hops = {0} /\ proc[p].loc.max_num_hops = 0
    /\ proc[p].req.artifacts_options = {6} /\ proc[p].resp.artifacts = {6}
    /\ proc[p].resp.executions = {}
    /\ proc[q].op = "GetLineageGraph" /\ proc[q].req.max_num_hops = {-1}
    /\ proc[q].status = "INVALID_ARGUMENT"

----------------------------------------------------------------------------
(* The seeds of GetLineageGraph, on chains of up to SeedArtifacts          *)
(* artifacts, for filters that select none, one or several artifacts.      *)

SeedArtifacts == 3

SeedRequests ==
  {GetLineageGraphRequest(TRUE, seeds, hops, size) :
     seeds \in {{}, {1}, {2, 3}, {1, 2, 3}, {99}},
     hops \in {{0}, {1}},
     size \in {-1, 0, 1, 2, 3}}

InitSeeds ==
  /\ db \in {Chain(n) : n \in 1..SeedArtifacts}
  /\ proc = [p \in Procs |-> Idle]
  /\ hist = <<>>
  /\ now = 1

NextSeeds ==
  \E p \in Writers :
    \/ Call_GetLineageGraph(p, SeedRequests)
    \/ GLG_Query(p)

SpecSeeds == InitSeeds /\ [][NextSeeds]_vars

\* The ids of the stored artifacts that the filter of the request selects.
Selected(request) ==
  {r.id : r \in Committed(db, "artifacts")} \cap request.artifacts_options

\* C22: lineage seed selection.  A GetLineageGraph call whose filter selects
\* no artifact returns NOT_FOUND with an empty response.  Otherwise the
\* seeds are the selected artifacts in the order of the list, all of them
\* when max_node_size <= 0 or not below their number, and the first
\* max_node_size of them when it is positive and below their number: the
\* seeds are never empty and never more than a positive max_node_size.
SeedSelection ==
  \A p \in Procs :
    (proc[p].op = "GetLineageGraph" /\ proc[p].pc = "done"
       /\ proc[p].status # "INVALID_ARGUMENT")
      => LET request == proc[p].req
             size == request.max_node_size
             selected == Selected(request)
         IN
         IF selected = {}
           THEN proc[p].status = "NOT_FOUND" /\ proc[p].resp = NoSubgraph
         ELSE LET artifacts == proc[p].loc.artifacts
                  kept == {artifacts[k] : k \in 1..Len(artifacts)}
              IN /\ proc[p].status = "OK"
                 /\ artifacts # <<>>
                 /\ Cardinality(kept) = Len(artifacts)
                 /\ \A j, k \in 1..Len(artifacts) : j < k => artifacts[j] < artifacts[k]
                 /\ kept \subseteq selected
                 /\ \A a \in kept : \A b \in selected \ kept : a < b
                 /\ (size <= 0 \/ Cardinality(selected) <= size) => kept = selected
                 /\ (size > 0 /\ Cardinality(selected) > size) => Len(artifacts) = size
                 /\ size > 0 => Len(artifacts) <= size

\* Of three selected artifacts the first two were kept as seeds, and a call
\* whose filter selected nothing returned NOT_FOUND.
SeedsTruncated ==
  \E p, q \in Procs :
    /\ proc[p].op = "GetLineageGraph" /\ proc[p].pc = "done" /\ proc[p].status = "OK"
    /\ proc[p].req.artifacts_options = {1, 2, 3} /\ proc[p].req.max_node_size = 2
    /\ Selected(proc[p].req) = {1, 2, 3}
    /\ proc[p].loc.artifacts = <<1, 2>>
    /\ proc[q].op = "GetLineageGraph" /\ proc[q].pc = "done"
    /\ proc[q].status = "NOT_FOUND" /\ proc[q].req.artifacts_options = {99}

----------------------------------------------------------------------------
(* Type reads among type writes.  The store holds the recorded step, the   *)
(* simple types "mlmd.Model" and "mlmd.Train", and no parent link.         *)

ListedStore ==
  [RefusalStore EXCEPT !.types = @ \cup {TypeRow(5, "execution", "mlmd.Train")}]

ListedTypeCalls ==
  {PutTypeRequest("PutArtifactType", Type("T", "", Pu, base), TRUE, TRUE) :
     base \in {"", "MODEL"}}
  \cup {PutTypeRequest("PutExecutionType", Type("T", "", Pu, "TRAIN"), TRUE, TRUE),
        PutTypeRequest("PutContextType", Type("mlmd.Model", "", Pu, ""), TRUE, TRUE),
        PutTypeRequest("PutContextType", Type("T", "", Pu, "UNSET"), TRUE, TRUE)}

TypeReadCalls ==
  {[op |-> op, req |-> <<>>] : op \in DOMAIN TypesReads}
  \cup {[op |-> op, req |-> NameRequest(type_name, "")] :
          op \in DOMAIN TypeReads, type_name \in {"T", "mlmd.Model"}}
  \cup {[op |-> op, req |-> [type_ids |-> {1, 2, 3, 6, 7}]] : op \in DOMAIN TypesByIDReads}

InitListed ==
  /\ db = ListedStore
  /\ proc = [p \in Procs |-> Idle]
  /\ hist = <<>>
  /\ now = 1

NextListed ==
  \E p \in Writers :
    \/ Call_PutType(p, ListedTypeCalls)
    \/ Call_Get(p, TypeReadCalls)
    \/ UpsertType_Step(p)
    \/ Get_Read(p)

SpecListed == InitListed /\ [][NextListed]_vars

\* C23: when Get{Artifact,Execution,Context}Types returns, it returns OK
\* with exactly the stored types of its variant whose name is not the name
\* of a simple type.
SimpleTypesUnlisted ==
  [][\A p \in Procs :
       (proc[p].op \in DOMAIN TypesReads /\ proc[p].pc = "read" /\ proc'[p].pc = "done")
         => /\ proc'[p].status = "OK"
            /\ {type.id : type \in proc'[p].resp}
                 = {r.id : r \in {x \in Committed(db, "types") :
                                    /\ x.kind = TypesReads[proc[p].op]
                                    /\ x.name \notin {"mlmd.Model", "mlmd.Train"}}}]_vars

\* The enum values of the committed parents of a type.
BaseTypesOf(d, type_id) ==
  {IF r.name = "mlmd.Model" THEN "MODEL"
   ELSE IF r.name = "mlmd.Dataset" THEN "DATASET"
   ELSE IF r.name = "mlmd.Train" THEN "TRAIN"
   ELSE "?" :
     r \in {x \in Committed(d, "types") :
              \E l \in ParentLinksOf(d, type_id) : l.parent_type_id = x.id}}

----------------------------------------------------------------------------
(* MetadataStore::Create.  The request is downgrade_to_schema_version of   *)
(* the migration options; resp.result says whether *result holds a store;  *)
(* loc holds the statuses that CreateMetadataAccessObject and              *)
(* DowngradeMetadataSource returned, "NONE" when they did not run.         *)

Call_Create(p) ==
  /\ CanCall(p)
  /\ \E version \in {-1, 0, 1} :
       proc' = [proc EXCEPT ![p] =
                  [Started(p, "Create", "Create_access_object",
                           [downgrade_to_schema_version |-> version], [result |-> FALSE])
                     EXCEPT !.transactions = 0,
                            !.loc = [access_object |-> "NONE", downgrade |-> "NONE"]]]
  /\ UNCHANGED <<db, hist, now>>

\* CreateMetadataAccessObject, and the return of a store when no downgrade
\* is asked for.
Create_AccessObject(p) ==
  /\ proc[p].op = "Create" /\ proc[p].pc = "Create_access_object"
  /\ \E st \in {"OK", "INVALID_ARGUMENT"} :
       proc' = [proc EXCEPT ![p] =
                  IF st # "OK"
                    THEN [@ EXCEPT !.pc = "done", !.status = st, !.loc.access_object = st]
                  ELSE IF proc[p].req.downgrade_to_schema_version >= 0
                    THEN [@ EXCEPT !.pc = "Create_downgrade", !.loc.access_object = st,
                                   !.transactions = @ + 1]
                  ELSE [@ EXCEPT !.pc = "done", !.status = "OK", !.loc.access_object = st,
                                 !.resp.result = TRUE]]
  /\ UNCHANGED <<db, hist, now>>

\* Create_Downgrade returning the store after a downgrade.
Create_DowngradeReturnsStore(p) ==
  /\ proc[p].op = "Create" /\ proc[p].pc = "Create_downgrade"
  /\ \E st \in {"OK", "FAILED_PRECONDITION"} :
       /\ db' = Execute(db, p, st)
       /\ proc' = [proc EXCEPT ![p].pc = "done", ![p].loc.downgrade = st,
                               ![p].status = st, ![p].resp.result = (st = "OK")]
  /\ UNCHANGED <<hist, now>>

\* The downgrade in its transaction, and what Create returns after it.
Create_Downgrade(p) ==
  /\ proc[p].op = "Create" /\ proc[p].pc = "Create_downgrade"
  /\ \E st \in {"OK", "FAILED_PRECONDITION"} :
       /\ db' = Execute(db, p, st)
       /\ proc' = [proc EXCEPT ![p].pc = "done", ![p].loc.downgrade = st,
                               ![p].status = IF st = "OK" THEN "CANCELLED" ELSE st]
  /\ UNCHANGED <<hist, now>>

NextCreate ==
  \E p \in Procs :
    \/ Call_Create(p)
    \/ Create_AccessObject(p)
    \/ Create_Downgrade(p)

SpecCreate == InitExec /\ [][NextCreate]_vars

\* What C25 says of a downgrade_to_schema_version >= 0, for the caller p that
\* has returned from Create: no store and never OK, CANCELLED after a
\* downgrade that succeeded and the error of the downgrade after one that
\* failed.
DowngradeRefusesStore(p) ==
  /\ ~proc[p].resp.result
  /\ proc[p].status # "OK"
  /\ proc[p].loc.downgrade = "OK" => proc[p].status = "CANCELLED"
  /\ proc[p].loc.downgrade \notin {"OK", "NONE"} => proc[p].status = proc[p].loc.downgrade

\* C25 as stated: Create with downgrade_to_schema_version >= 0 returns no
\* store and a status other than OK, and with downgrade_to_schema_version < 0
\* it runs no downgrade and returns a store.
CreateReturnsStoreUnlessDowngrade ==
  \A p \in Procs :
    (proc[p].op = "Create" /\ proc[p].pc = "done")
      => IF proc[p].req.downgrade_to_schema_version >= 0
           THEN DowngradeRefusesStore(p)
         ELSE /\ proc[p].loc.downgrade = "NONE" /\ proc[p].transactions = 0
              /\ proc[p].resp.result /\ proc[p].status = "OK"

\* C25, amended: as stated, but with downgrade_to_schema_version < 0 Create
\* returns a store only when CreateMetadataAccessObject returned OK, and
\* otherwise returns the error of CreateMetadataAccessObject and no store.
CreateOutcome ==
  \A p \in Procs :
    (proc[p].op = "Create" /\ proc[p].pc = "done")
      => IF proc[p].req.downgrade_to_schema_version >= 0
           THEN DowngradeRefusesStore(p)
         ELSE /\ proc[p].loc.downgrade = "NONE" /\ proc[p].transactions = 0
              /\ IF proc[p].loc.access_object = "OK"
                   THEN proc[p].resp.result /\ proc[p].status = "OK"
                 ELSE /\ ~proc[p].resp.result
                      /\ proc[p].status = proc[p].loc.access_object

\* One Create returned CANCELLED and no store after its downgrade, and one
\* returned a store without a downgrade.
CreateBothWays ==
  \E p, r \in Procs :
    /\ proc[p].op = "Create" /\ proc[p].pc = "done" /\ proc[p].status = "CANCELLED"
    /\ proc[p].loc.downgrade = "OK" /\ ~proc[p].resp.result
    /\ proc[r].op = "Create" /\ proc[r].pc = "done" /\ proc[r].status = "OK"
    /\ proc[r].req.downgrade_to_schema_version < 0 /\ proc[r].resp.result

----------------------------------------------------------------------------
(* Type writes with and without all_fields_match, among concurrent         *)
(* writers, on the store of the refused requests.                          *)

NoMatchCalls ==
  {[op |-> call.op, req |-> [call.req EXCEPT !.all_fields_match = match]] :
     call \in {PutTypeRequest(op, Type(name, "", Pu, base), flags[1], flags[2]) :
                 op \in PutTypeOps, name \in {"A", "N"}, base \in {"", "UNSET"},
                 flags \in {<<TRUE, TRUE>>, <<FALSE, FALSE>>}}
              \cup {PutTypeRequest("PutArtifactType", Type("N", "", Puw, "MODEL"), TRUE, TRUE),
                    [op |-> "PutTypes",
                     req |-> PutTypesRequest(<<Type("A", "", Puw, "")>>,
                                             <<Type("N", "", Pu, "")>>, <<>>, TRUE, TRUE)]},
     match \in BOOLEAN}

NextNoMatch ==
  \E p \in Writers :
    \/ Call_PutType(p, NoMatchCalls)
    \/ UpsertType_Step(p)

SpecNoMatch == InitRefusal /\ [][NextNoMatch]_vars

\* C26: a call of PutTypes, PutArtifactType, PutExecutionType or
\* PutContextType with all_fields_match false returns UNIMPLEMENTED at once,
\* whatever else the request holds, and leaves the store as it was: no row
\* of any table is written by the call.
NoFieldsMatchUnimplemented ==
  [][\A p \in Procs :
       (/\ proc'[p].calls # proc[p].calls
        /\ proc'[p].op \in PutTypeOps \cup {"PutTypes"}
        /\ ~proc'[p].req.all_fields_match)
         => /\ proc'[p].pc = "done" /\ proc'[p].status = "UNIMPLEMENTED"
            /\ proc'[p].resp.type_ids = <<>>
            /\ db' = db
            /\ \A t \in Tables : \A r \in db'[t] : r.by # <<p, proc'[p].calls>>]_vars

\* PutContextType with all_fields_match false has returned UNIMPLEMENTED
\* while another caller's type write is stored.
NoFieldsMatchRefused ==
  \E p \in Procs :
    /\ proc[p].op = "PutContextType" /\ ~proc[p].req.all_fields_match
    /\ proc[p].pc = "done" /\ proc[p].status = "UNIMPLEMENTED"
    /\ \E r \in Committed(db, "types") : r.name = "N"

----------------------------------------------------------------------------
(* The pairs of PutExecution.  One caller runs one PutExecution on the     *)
(* recorded step, with a new or the stored execution, pairs of every       *)
(* shape and no, a new or the stored context.                              *)

PairShapes ==
  {ArtifactAndEvent(TRUE, a, he, Event(ea, ee)) :
     a \in {NewArtifact, StoredArtifact}, he \in BOOLEAN,
     ea \in {{}, {1}, {2}}, ee \in {{}, {1}, {2}}}
  \cup {ArtifactAndEvent(FALSE, NoNode, he, Event(ea, ee)) :
          he \in BOOLEAN, ea \in {{}, {1}, {2}}, ee \in {{}, {1}, {2}}}

PairRequests ==
  {PutExecutionRequest(TRUE, e, pairs, cs, FALSE) :
     e \in {NewExecution, StoredExecution},
     pairs \in {<<ae>> : ae \in PairShapes}
                 \cup {<<>>, <<EmptyPair, OutputPair>>, <<OutputPair, EmptyPair>>,
                       <<InputPair, OutputPair>>, <<OutputPair, OutputPair>>},
     cs \in {<<>>, <<NewContext>>, <<StoredContext>>}}

NextPairs ==
  \E p \in {1} :
    \/ Call_Once(p, PairRequests)
    \/ PE_Execution(p)
    \/ PE_Pair(p)
    \/ PE_CtxUpsert(p)
    \/ PE_Links(p)
    \/ TxCommit(p)

SpecPairs == InitExec /\ [][NextPairs]_vars

\* C27: when PutExecution handles a pair with an artifact and an event (the
\* event naming no execution), it returns INVALID_ARGUMENT exactly when
\* artifact.id and event.artifact_id are both set and differ; a pair with
\* a new artifact and an event.artifact_id is not refused.
ArtifactIdMismatchRefused ==
  [][\A p \in Procs :
       (proc[p].op = "PutExecution" /\ proc[p].pc = "PE_pair" /\ proc'[p] # proc[p])
         => LET ae == proc[p].req.artifact_event_pairs[proc[p].i] IN
            (ae.has_artifact /\ ae.has_event /\ ae.event.execution_id = {})
              => (proc'[p].status = "INVALID_ARGUMENT"
                    <=> (/\ ae.artifact.id # {}
                         /\ ae.event.artifact_id # {}
                         /\ ae.artifact.id # ae.event.artifact_id))]_vars

----------------------------------------------------------------------------
\* An event with the given ids is stored by the transaction of p or committed.
EventStored(d, p, artifact_id, execution_id) ==
  \E r \in View(d, p, "events") :
    r.artifact_id = artifact_id /\ r.execution_id = execution_id

\* C28 as stated: when PutExecution handles a pair with an event, it refuses
\* the pair for its execution exactly when event.execution_id is set and
\* differs from the id of the execution upserted in step 1: a pair with an
\* artifact and no event.artifact_id, which nothing else makes invalid, gets
\* INVALID_ARGUMENT exactly then.  Every accepted pair with an event has its
\* event stored with that execution id and with the artifact id captured
\* for the pair.
EventExecutionIsCaptured ==
  [][\A p \in Procs :
       (proc[p].op = "PutExecution" /\ proc[p].pc = "PE_pair" /\ proc'[p] # proc[p])
         => LET ae == proc[p].req.artifact_event_pairs[proc[p].i]
                execution_id == proc[p].resp.execution_id
                mismatch == /\ ae.event.execution_id # {}
                            /\ ae.event.execution_id # {execution_id}
            IN ae.has_event
                 => /\ mismatch => proc'[p].status = "INVALID_ARGUMENT"
                    /\ (ae.has_artifact /\ ae.event.artifact_id = {} /\ ~mismatch)
                         => proc'[p].status # "INVALID_ARGUMENT"
                    /\ proc'[p].pc # "done"
                         => EventStored(db', p, proc'[p].resp.artifact_ids[proc[p].i],
                                        execution_id)]_vars

\* C28, amended: the pair is refused for its execution exactly when
\* event.execution_id is set and the execution of the request carries no id
\* or another id; with a new execution every event.execution_id is refused,
\* also the id that the execution is created with.  Every accepted pair
\* with an event has its event stored with the id of the execution
\* upserted in step 1 and with the artifact id captured for the pair.
EventExecutionIsGiven ==
  [][\A p \in Procs :
       (proc[p].op = "PutExecution" /\ proc[p].pc = "PE_pair" /\ proc'[p] # proc[p])
         => LET ae == proc[p].req.artifact_event_pairs[proc[p].i]
                execution_id == proc[p].resp.execution_id
                mismatch == /\ ae.event.execution_id # {}
                            /\ ae.event.execution_id # proc[p].req.execution.id
            IN ae.has_event
                 => /\ mismatch => proc'[p].status = "INVALID_ARGUMENT"
                    /\ (ae.has_artifact /\ ae.event.artifact_id = {} /\ ~mismatch)
                         => proc'[p].status # "INVALID_ARGUMENT"
                    /\ proc'[p].pc # "done"
                         => EventStored(db', p, proc'[p].resp.artifact_ids[proc[p].i],
                                        execution_id)]_vars

\* An event that names the stored execution of the request was stored with
\* it and with the artifact created for its pair.
EventOfGivenExecution ==
  \E p \in Procs :
    /\ proc[p].op = "PutExecution" /\ proc[p].pc = "done" /\ proc[p].status = "OK"
    /\ proc[p].req.execution.id = {1}
    /\ \E k \in 1..Len(proc[p].req.artifact_event_pairs) :
         /\ proc[p].req.artifact_event_pairs[k].has_event
         /\ proc[p].req.artifact_event_pairs[k].event.execution_id = {1}
         /\ proc[p].req.artifact_event_pairs[k].artifact.id = {}
         /\ proc[p].req.artifact_event_pairs[k].has_artifact
         /\ \E r \in Committed(db, "events") :
              /\ r.execution_id = 1
              /\ r.artifact_id = proc[p].resp.artifact_ids[k] /\ r.artifact_id # 1

----------------------------------------------------------------------------
\* The pair has neither artifact nor event.
IsEmptyPair(ae) == ~ae.has_artifact /\ ~ae.has_event

\* C29: a pair of PutExecution with neither artifact nor event is skipped.
\* The step that handles it writes nothing and goes on, and step 3 attempts
\* no Attribution for it: the step that links a context of a request with
\* such a pair does not return INVALID_ARGUMENT, the artifacts of the other
\* pairs and the context being stored.
EmptyPairSkipped ==
  [][\A p \in Procs :
       /\ (proc[p].op = "PutExecution" /\ proc[p].pc = "PE_pair" /\ proc'[p] # proc[p]
             /\ IsEmptyPair(proc[p].req.artifact_event_pairs[proc[p].i]))
            => db' = db /\ proc'[p].pc # "done"
       /\ (proc[p].op = "PutExecution" /\ proc[p].pc = "PE_links" /\ proc'[p] # proc[p]
             /\ \E k \in 1..Len(proc[p].req.artifact_event_pairs) :
                  IsEmptyPair(proc[p].req.artifact_event_pairs[k]))
            => proc'[p].status # "INVALID_ARGUMENT"]_vars

----------------------------------------------------------------------------
\* A committed row of the table holds the two ids in the two columns.
Linked(t, column, id, other, other_id) ==
  \E r \in Committed(db, t) : r[column] = id /\ r[other] = other_id

\* C30: after a successful PutExecution the response holds the id of the
\* stored execution, one artifact id for every pair of the request in the
\* order of the pairs and one context id for every context of the request
\* in their order; every returned context is associated with the execution
\* and has an attribution to every captured artifact id; and the event of
\* every pair is stored with the execution id and the artifact id of its
\* pair.
PutExecutionPostcondition ==
  \A p \in Procs :
    (proc[p].op = "PutExecution" /\ proc[p].pc = "done" /\ proc[p].status = "OK")
      => LET req == proc[p].req
             resp == proc[p].resp
             pairs == req.artifact_event_pairs
         IN
         /\ \E r \in Committed(db, "executions") :
              r.id = resp.execution_id /\ r.type_id = req.execution.type_id
         /\ req.execution.id \subseteq {resp.execution_id}
         /\ Len(resp.artifact_ids) = Len(pairs)
         /\ \A k \in 1..Len(pairs) :
              /\ pairs[k].has_artifact
                   => /\ pairs[k].artifact.id \subseteq {resp.artifact_ids[k]}
                      /\ \E r \in Committed(db, "artifacts") :
                           r.id = resp.artifact_ids[k] /\ r.val = pairs[k].artifact.val
              /\ (~pairs[k].has_artifact /\ pairs[k].has_event)
                   => pairs[k].event.artifact_id = {resp.artifact_ids[k]}
              /\ pairs[k].has_event
                   => Linked("events", "artifact_id", resp.artifact_ids[k],
                             "execution_id", resp.execution_id)
         /\ Len(resp.context_ids) = Len(req.contexts)
         /\ \A j \in 1..Len(req.contexts) :
              /\ req.contexts[j].id \subseteq {resp.context_ids[j]}
              /\ \E r \in Committed(db, "contexts") :
                   r.id = resp.context_ids[j] /\ r.name = req.contexts[j].name
              /\ Linked("associations", "context_id", resp.context_ids[j],
                        "execution_id", resp.execution_id)
              /\ \A k \in 1..Len(pairs) :
                   Linked("attributions", "context_id", resp.context_ids[j],
                          "artifact_id", resp.artifact_ids[k])

\* A PutExecution with an input pair, an output pair and a new context has
\* succeeded: it returned the stored artifact and a new one, in this order.
StepRecorded ==
  \E p \in Procs :
    /\ proc[p].op = "PutExecution" /\ proc[p].pc = "done" /\ proc[p].status = "OK"
    /\ proc[p].req.artifact_event_pairs = <<InputPair, OutputPair>>
    /\ proc[p].req.contexts = <<NewContext>>
    /\ proc[p].resp.artifact_ids = <<1, 2>>
    /\ Len(proc[p].resp.context_ids) = 1
    /\ Linked("attributions", "context_id", proc[p].resp.context_ids[1], "artifact_id", 2)

----------------------------------------------------------------------------
(* Writes of nodes, events and links among concurrent writers, on the      *)
(* store of the batch scenarios.                                           *)

\* Requests that name rows and types the store does not hold, or a type of
\* another variant, next to a request that records a step.
IntegrityRequests ==
  {PutExecutionRequest(TRUE, e, <<ae>>, cs, FALSE) :
     e \in {NewExecution},
     ae \in {OutputPair, EmptyPair, ArtifactAndEvent(FALSE, NoNode, TRUE, Event({9}, {}))},
     cs \in {<<NewContext>>}}
    \cup {PutExecutionRequest(TRUE, e, <<OutputPair>>, <<NewContext>>, FALSE) :
            e \in {UnknownExecution, Node({}, 1, "", "x")}}
    \cup {PutExecutionRequest(TRUE, NewExecution, <<OutputPair>>, <<c>>, FALSE) :
            c \in {UnknownContext, Node({}, 9, "c1", "x")}}

IntegrityCalls ==
  {call \in BatchCalls : call.op \in {"PutEvents", "PutAttributionsAndAssociations"}}
    \cup {[op |-> "PutArtifacts",
           req |-> [artifacts |-> <<Timed(NewArtifact, 0), Timed(Node({}, 2, "", "x"), 0)>>,
                    abort_if_latest_updated_time_changed |-> FALSE]],
          [op |-> "PutContexts", req |-> [contexts |-> <<Node({1}, 1, "c0", "y")>>]],
          [op |-> "PutExecutions", req |-> [executions |-> <<Node({1}, 9, "", "y")>>]]}

NextWrites ==
  \E p \in Writers :
    \/ Call_PutExecution(p, IntegrityRequests)
    \/ Call_Batch(p, IntegrityCalls)
    \/ PE_Execution(p)
    \/ PE_Pair(p)
    \/ PE_CtxUpsert(p)
    \/ PE_Links(p)
    \/ PutArtifacts_Item(p)
    \/ PutExecutions_Item(p)
    \/ PutContexts_Item(p)
    \/ PutEvents_Item(p)
    \/ PAA_Attribution(p)
    \/ PAA_Association(p)
    \/ TxCommit(p)

SpecWrites == InitBatch /\ [][NextWrites]_vars

\* The rows of table t with that id which the reader p sees.
Stored(p, t, id) == {r \in View(db, p, t) : r.id = id}

----------------------------------------------------------------------------
(* The consistency checker alone: every stored type and given type over    *)
(* three property names and two kinds, with every pair of flags.           *)

PropertyNames == {"u", "w", "x"}

PropertyKinds == {"INT", "STRING"}

PropertyMaps == UNION {[D -> PropertyKinds] : D \in SUBSET PropertyNames}

CheckerInputs ==
  [stored_type : {[id |-> 1, name |-> n, version |-> "", properties |-> ps] :
                    n \in {"T"}, ps \in PropertyMaps},
   other_type : {Type(n, "", ps, "") : n \in {"T", "U"}, ps \in PropertyMaps},
   can_add_fields : BOOLEAN,
   can_omit_fields : BOOLEAN]

InitChecker ==
  /\ db = EmptyDb
  /\ \E in \in CheckerInputs :
       proc = [p \in Procs |-> IF p = 1 THEN [Idle EXCEPT !.op = "CheckFieldsConsistent",
                                                          !.req = in]
                               ELSE Idle]
  /\ hist = <<>>
  /\ now = 1

\* The checker runs on the inputs of the caller.
Check(p) ==
  /\ proc[p].op = "CheckFieldsConsistent" /\ proc[p].pc = "idle"
  /\ LET in == proc[p].req
         r == CheckFieldsConsistent(in.stored_type, in.other_type,
                                    in.can_add_fields, in.can_omit_fields)
     IN proc' = [proc EXCEPT ![p].pc = "done", ![p].status = r.st,
                             ![p].resp = r.output_type]
  /\ UNCHANGED <<db, hist, now>>

NextChecker == \E p \in Procs : Check(p)

SpecChecker == InitChecker /\ [][NextChecker]_vars

(* C32: for every stored type S, given type T and pair of flags, the       *)
(* checker fails exactly when the names differ, or a property of both has  *)
(* two kinds, or S has a property that T lacks while can_omit_fields is    *)
(* false, or T has a property that S lacks while can_add_fields is false;  *)
(* otherwise it succeeds, the output type is S with the properties of T    *)
(* that S lacks added (S's kinds kept for the shared names), and the       *)
(* output is S itself whenever T has no new name, whatever can_add_fields. *)
CheckerAgreesWithRules ==
  \A p \in Procs :
    (proc[p].op = "CheckFieldsConsistent" /\ proc[p].pc = "done") =>
      LET in == proc[p].req
          S == in.stored_type.properties
          T == in.other_type.properties
          fails ==
            \/ in.stored_type.name # in.other_type.name
            \/ \E n \in DOMAIN S \cap DOMAIN T : S[n] # T[n]
            \/ DOMAIN S \ DOMAIN T # {} /\ ~in.can_omit_fields
            \/ DOMAIN T \ DOMAIN S # {} /\ ~in.can_add_fields
      IN /\ proc[p].status = (IF fails THEN "FAILED_PRECONDITION" ELSE "OK")
         /\ ~fails =>
              /\ proc[p].resp.id = in.stored_type.id
              /\ proc[p].resp.name = in.stored_type.name
              /\ DOMAIN proc[p].resp.properties = DOMAIN S \cup DOMAIN T
              /\ \A n \in DOMAIN S : proc[p].resp.properties[n] = S[n]
              /\ \A n \in DOMAIN T \ DOMAIN S : proc[p].resp.properties[n] = T[n]
              /\ DOMAIN T \subseteq DOMAIN S => proc[p].resp = in.stored_type

\* The checker merged a given type that omits one stored property, shares
\* one and adds one.
CheckerMerged ==
  \E p \in Procs :
    /\ proc[p].op = "CheckFieldsConsistent" /\ proc[p].pc = "done"
    /\ proc[p].status = "OK"
    /\ DOMAIN proc[p].req.stored_type.properties = {"u", "w"}
    /\ DOMAIN proc[p].req.other_type.properties = {"w", "x"}
    /\ DOMAIN proc[p].resp.properties = PropertyNames

----------------------------------------------------------------------------
(* The creating branch of UpsertType.                                      *)

\* The type that p is about to look up is not stored.
UpsertsAbsent(p) ==
  /\ IsTypeOp(p) /\ proc[p].pc = "UT_find"
  /\ LET item == TypeItems(proc[p].req)[proc[p].i] IN
     FindTypeByNameAndVersion(db, p, item.kind, item.type.name, item.type.version) = {}

----------------------------------------------------------------------------
(* Type upserts that ask for the reserved base type UNSET, on a store that *)
(* holds the artifact type "T" with the property "u" of kind INT.          *)

UnsetStore ==
  [RegisteredType EXCEPT
     !.typeProps = {[id |-> 1, type_id |-> 1, name |-> "u", ptype |-> "INT",
                     tx |-> 0, by |-> <<0, 0>>]}]

UnsetCalls ==
  {PutTypeRequest("PutArtifactType", Type(n, "", props, "UNSET"), flags[1], flags[2]) :
     n \in {"T", "N"},
     props \in {Pui, Pw, Pu},
     flags \in {<<TRUE, TRUE>>, <<FALSE, FALSE>>}}
  \cup {PutTypeRequest("PutArtifactType", Type("", "", Pw, "UNSET"), TRUE, TRUE),
        PutTypeRequest("PutArtifactType", Type("T", "", Pw, ""), TRUE, TRUE),
        PutTypeRequest("PutArtifactType", Type("T", "", [n \in {"w"} |-> "STRING"], ""),
                       TRUE, TRUE)}

InitUnset ==
  /\ db = UnsetStore
  /\ proc = [p \in Procs |-> Idle]
  /\ hist = <<>>
  /\ now = 1

NextUnset ==
  \E p \in Writers :
    \/ Call_PutType(p, UnsetCalls)
    \/ UT_Find(p)
    \/ UT_Create(p)
    \/ UT_Update(p)
    \/ UT_Link(p)
    \/ TxCommit(p)

SpecUnset == InitUnset /\ [][NextUnset]_vars

\* The call of p upserts one type with the base type UNSET.
UpsertsUnset(p) ==
  /\ proc[p].op \in PutTypeOps
  /\ proc[p].req.all_fields_match
  /\ TypeItems(proc[p].req)[1].type.base_type = "UNSET"

\* The step ends the call of p.
Returns(p) == proc[p].pc \notin {"idle", "done"} /\ proc'[p].pc = "done"

\* The step leaves the stored types as they were and nothing of p's call.
TypesUntouched(p) ==
  /\ StoredTypeRows' = StoredTypeRows
  /\ StoredProperties' = StoredProperties
  /\ StoredParentLinks' = StoredParentLinks
  /\ \A t \in Tables : \A r \in db'[t] : r.tx # p /\ r.by # By(p)

\* C34 as claimed: a type upsert whose base_type is UNSET returns
\* UNIMPLEMENTED, for a new and for a stored type, and leaves the store
\* unchanged.
UnsetIsUnimplemented ==
  [][\A p \in Writers :
       UpsertsUnset(p) /\ Returns(p) =>
         proc'[p].status = "UNIMPLEMENTED" /\ TypesUntouched(p)]_vars

(* C34, amended: a type upsert whose base_type is UNSET never returns OK   *)
(* and leaves the store unchanged: a type that was not stored is not       *)
(* stored afterwards and a stored type gains no property.  It returns      *)
(* UNIMPLEMENTED, for a new and for a stored type, whenever the upsert     *)
(* gets as far as the base-type link; before that a type without name is   *)
(* refused with INVALID_ARGUMENT and a request that is inconsistent with   *)
(* the stored type with ALREADY_EXISTS.                                    *)
UnsetNeverStored ==
  [][\A p \in Writers :
       UpsertsUnset(p) /\ Returns(p) =>
         LET type == TypeItems(proc[p].req)[1].type IN
         /\ TypesUntouched(p)
         /\ proc'[p].status \in {"UNIMPLEMENTED", "INVALID_ARGUMENT", "ALREADY_EXISTS"}
         /\ proc[p].pc = "UT_link" <=> proc'[p].status = "UNIMPLEMENTED"
         /\ proc'[p].status = "INVALID_ARGUMENT" <=> type.name = ""
         /\ proc'[p].status = "ALREADY_EXISTS" => proc[p].pc \in {"UT_find", "UT_update"}]_vars

\* Two upserts with UNSET returned UNIMPLEMENTED, one after it had created
\* its type and one after it had added a property to the stored type.
UnsetRolledBack ==
  \E p, q \in Writers :
    /\ p # q
    /\ UpsertsUnset(p) /\ proc[p].pc = "done" /\ proc[p].status = "UNIMPLEMENTED"
    /\ TypeItems(proc[p].req)[1].type.name = "N"
    /\ UpsertsUnset(q) /\ proc[q].pc = "done" /\ proc[q].status = "UNIMPLEMENTED"
    /\ TypeItems(proc[q].req)[1].type = Type("T", "", Pw, "UNSET")
    /\ StoredTypeRows = {<<1, "artifact", "T", "">>}
    /\ StoredProperties = {<<1, "u", "INT">>}

----------------------------------------------------------------------------
(* PutExecution with a context that is stored under another value, among   *)
(* concurrent writers with and without reuse_context_if_already_exist.     *)

\* The stored context "c0" as a request without id gives it, with a value of
\* its own.
ChangedContext == Node({}, 3, "c0", "z")

ReusedRequests ==
  {PutExecutionRequest(TRUE, NewExecution, pairs, cs, reuse) :
     pairs \in {<<>>, <<OutputPair>>, <<OutputPair, InputPair>>},
     cs \in {<<ChangedContext>>, <<NewContext, ChangedContext>>},
     reuse \in BOOLEAN}

NextReused ==
  \E p \in Writers :
    \/ Call_PutExecution(p, ReusedRequests)
    \/ PE_Execution(p)
    \/ PE_Pair(p)
    \/ PE_Context(p)
    \/ PE_CtxUpsert(p)
    \/ PE_Links(p)
    \/ TxCommit(p)

SpecReused == InitExec /\ [][NextReused]_vars

(* C35: when a PutExecution with reuse_context_if_already_exist returns OK *)
(* and a context of the request without id has the (type_id, name) of a    *)
(* stored context, the response holds the id of the stored context at the  *)
(* place of that context, the call has written no context with that        *)
(* (type_id, name), the stored context is as it was although the request   *)
(* gives another value, and the stored context is associated with the      *)
(* execution and has an attribution to every artifact of the response.     *)
StoredContextReused ==
  [][\A p \in Writers :
       (/\ proc[p].op = "PutExecution" /\ proc[p].pc = "commit" /\ proc'[p].pc = "done"
        /\ proc[p].req.reuse_context_if_already_exist)
       => \A j \in 1..Len(proc[p].req.contexts) :
            \A c \in Committed(db, "contexts") :
              (/\ proc[p].req.contexts[j].id = {}
               /\ SameKey(c, proc[p].req.contexts[j]))
              => /\ proc'[p].status = "OK"
                 /\ proc'[p].resp.context_ids[j] = c.id
                 /\ c \in Committed(db', "contexts")
                 /\ \A r \in db'.contexts :
                      r.by = By(p) => ~SameKey(r, proc[p].req.contexts[j])
                 /\ \E r \in Committed(db', "associations") :
                      r.context_id = c.id /\ r.execution_id = proc'[p].resp.execution_id
                 /\ \A k \in 1..Len(proc'[p].resp.artifact_ids) :
                      \E r \in Committed(db', "attributions") :
                        r.context_id = c.id /\ r.artifact_id = proc'[p].resp.artifact_ids[k]]_vars

\* A PutExecution with the option has returned OK with the id of the stored
\* context "c0", which still has its value, and with a new artifact that is
\* attributed to it.
ContextReusedUnchanged ==
  \E p \in Writers :
    /\ proc[p].op = "PutExecution" /\ proc[p].pc = "done" /\ proc[p].status = "OK"
    /\ proc[p].req.reuse_context_if_already_exist
    /\ proc[p].req.contexts = <<ChangedContext>>
    /\ proc[p].resp.context_ids = <<1>>
    /\ NodeRow(1, 3, "c0") \in Committed(db, "contexts")
    /\ \E r \in Committed(db, "attributions") :
         r.by = By(p) /\ r.context_id = 1 /\ r.artifact_id > 1

----------------------------------------------------------------------------
(* The Transaction Executor runs a closure again after an attempt that a   *)
(* transient storage error ended.  The response is the caller's object: it *)
(* holds what the ended attempt put into it until the closure clears it.   *)

\* The response object the caller hands to the method: it is empty.
EmptyResponse(op) ==
  IF op = "PutExecution" THEN ClearedPutExecutionResponse ELSE ClearedResponse(op)

\* The response after a closure entry that does not clear it.
ClosureEntryKeeps(op, resp) == resp

\* response->Clear(), the first statement of every closure.
ClosureEntry(op, resp) == EmptyResponse(op)

RetriedOps == {"PutTypes", "PutArtifacts", "PutExecutions", "PutContexts", "PutExecution"}

\* The first label of the closure of a call.
AttemptLabel(op, req) ==
  IF op = "PutExecution" THEN "PE_execution" ELSE FirstLabel([op |-> op, req |-> req])

\* A transient error ends the attempt of p anywhere in the closure: the
\* executor rolls the transaction back and runs the closure again.
Execute_Retry(p) ==
  /\ proc[p].op \in RetriedOps
  /\ proc[p].pc \notin {"idle", "done"}
  /\ proc[p].attempt < MaxAttempts
  /\ db' = Rollback(db, p)
  /\ proc' = [proc EXCEPT ![p] =
                [@ EXCEPT !.pc = AttemptLabel(proc[p].op, proc[p].req),
                          !.resp = ClosureEntry(proc[p].op, @),
                          !.i = 1, !.j = 1, !.context_id = -1, !.loc = <<>>,
                          !.missed = {},
                          !.calls = @ + 1,
                          !.attempt = @ + 1]]
  /\ UNCHANGED <<hist, now>>

RetriedCalls ==
  {[op |-> "PutTypes",
    req |-> PutTypesRequest(<<Type("A", "", Pu, "")>>, <<Type("T", "", Pw, "")>>, <<>>,
                            TRUE, TRUE)],
   [op |-> "PutArtifacts",
    req |-> [artifacts |-> <<Timed(NewArtifact, 0), Timed(StoredArtifact, 0)>>,
             abort_if_latest_updated_time_changed |-> FALSE]],
   [op |-> "PutExecutions", req |-> [executions |-> <<NewExecution, StoredExecution>>]],
   [op |-> "PutContexts", req |-> [contexts |-> <<NewContext, StoredContext>>]],
   [op |-> "PutContexts", req |-> [contexts |-> <<NewContext, SameNameContext>>]],
   [op |-> "PutExecution",
    req |-> PutExecutionRequest(TRUE, NewExecution, <<OutputPair, InputPair>>,
                                <<NewContext, StoredContext>>, FALSE)]}

\* Every writer sends one call.
Call_Retried(p) ==
  /\ proc[p].pc = "idle"
  /\ \E call \in RetriedCalls :
       proc' = [proc EXCEPT ![p] = Started(p, call.op, AttemptLabel(call.op, call.req),
                                           call.req,
                                           ClosureEntry(call.op, EmptyResponse(call.op)))]
  /\ UNCHANGED <<db, hist, now>>

NextRetried ==
  \E p \in Writers :
    \/ Call_Retried(p)
    \/ Execute_Retry(p)
    \/ UT_Find(p)
    \/ UT_Create(p)
    \/ UT_Update(p)
    \/ PutArtifacts_Item(p)
    \/ PutExecutions_Item(p)
    \/ PutContexts_Item(p)
    \/ PE_Execution(p)
    \/ PE_Pair(p)
    \/ PE_CtxUpsert(p)
    \/ PE_Links(p)
    \/ TxCommit(p)

SpecRetried == InitBatch /\ [][NextRetried]_vars

\* The id lists of the response of p with the request lists they answer.
IdLists(p) ==
  LET req == proc[p].req
      resp == proc[p].resp
  IN CASE proc[p].op = "PutTypes" -> {<<resp.type_ids, TypeItems(req)>>}
       [] proc[p].op = "PutArtifacts" -> {<<resp.artifact_ids, req.artifacts>>}
       [] proc[p].op = "PutExecutions" -> {<<resp.execution_ids, req.executions>>}
       [] proc[p].op = "PutContexts" -> {<<resp.context_ids, req.contexts>>}
       [] proc[p].op = "PutExecution" ->
            {<<resp.artifact_ids, req.artifact_event_pairs>>,
             <<resp.context_ids, req.contexts>>}
       [] OTHER -> {}

(* C36: whatever attempts of the closure the executor ended and ran again, *)
(* the response that PutTypes, PutArtifacts, PutExecutions, PutContexts or *)
(* PutExecution returns with OK has exactly one id for every element of    *)
(* the request in each of its id lists, and during every attempt a list    *)
(* holds no more ids than the elements the attempt has handled: nothing of *)
(* an earlier attempt is left in it.                                       *)
ResponseOfLastAttempt ==
  \A p \in Procs :
    proc[p].op \in RetriedOps =>
      \A l \in IdLists(p) :
        /\ Len(l[1]) <= Len(l[2])
        /\ (proc[p].pc = "done" /\ proc[p].status = "OK") => Len(l[1]) = Len(l[2])
        /\ (proc[p].op # "PutExecution" /\ proc[p].pc \notin {"idle", "done", "commit"})
             => Len(l[1]) = proc[p].i - 1

\* A call returned OK on its second attempt with two ids in a list.
SecondAttemptReturned ==
  \E p \in Writers :
    /\ proc[p].op \in RetriedOps /\ proc[p].pc = "done" /\ proc[p].status = "OK"
    /\ proc[p].attempt = 2
    /\ \E l \in IdLists(p) : Len(l[1]) = 2

----------------------------------------------------------------------------
(* PutArtifacts calls one after the other, with and without                *)
(* abort_if_latest_updated_time_changed, on the store of the batch         *)
(* scenarios: the artifacts 1 and 2 were last updated at time 0.           *)

PutArtifactsRequest(artifacts, abort) ==
  [op |-> "PutArtifacts",
   req |-> [artifacts |-> artifacts, abort_if_latest_updated_time_changed |-> abort]]

StaleCalls ==
  {PutArtifactsRequest(as, abort) :
     as \in {<<Timed(StoredArtifact, 0)>>,
             <<Timed(NewArtifact, 0), Timed(StoredArtifact, 1)>>,
             <<Timed(Node({2}, 1, "", "y"), 0), Timed(StoredArtifact, 1)>>,
             <<Timed(UnknownArtifact, 0), Timed(StoredArtifact, 1)>>,
             <<Timed(Node({}, 9, "", "x"), 0), Timed(StoredArtifact, 1)>>,
             <<Timed(StoredArtifact, 0), Timed(StoredArtifact, 0)>>},
     abort \in BOOLEAN}

\* A call starts when no other call is running.
Call_PutArtifactsInTurn(p) ==
  /\ \A q \in Procs : proc[q].pc \in {"idle", "done"}
  /\ CanCall(p)
  /\ \E call \in StaleCalls :
       proc' = [proc EXCEPT ![p] = Started(p, call.op, FirstLabel(call), call.req,
                                           ClearedResponse(call.op))]
  /\ UNCHANGED <<db, hist, now>>

NextStale ==
  \E p \in Writers :
    \/ Call_PutArtifactsInTurn(p)
    \/ PutArtifacts_Check(p)
    \/ PutArtifacts_Item(p)
    \/ TxCommit(p)

SpecStale == InitBatch /\ [][NextStale]_vars

\* The places of the request of p whose artifact carries the id of a stored
\* artifact with another last_update_time_since_epoch.
StalePlaces(p) ==
  {k \in 1..Len(proc[p].req.artifacts) :
     \E r \in Committed(db, "artifacts") :
       r.id \in proc[p].req.artifacts[k].id /\ r.time # proc[p].req.artifacts[k].time}

\* The call of p is a PutArtifacts with the option and a stale artifact.
PutsStale(p) ==
  /\ proc[p].op = "PutArtifacts"
  /\ proc[p].req.abort_if_latest_updated_time_changed
  /\ StalePlaces(p) # {}

\* The step leaves the stored artifacts as they were and nothing of p's call.
ArtifactsUntouched(p) ==
  /\ Committed(db', "artifacts") = Committed(db, "artifacts")
  /\ \A t \in Tables : \A r \in db'[t] : r.tx # p /\ r.by # By(p)

----------------------------------------------------------------------------
(* Concurrent PutArtifacts calls that update the stored artifact 1, each   *)
(* with the last_update_time_since_epoch 0 that the store holds.           *)

LostUpdateCalls ==
  {PutArtifactsRequest(as, abort) :
     as \in {<<Timed(Node({1}, 1, "", val), 0)>> : val \in {"y", "z"}}
              \cup {<<Timed(NewArtifact, 0), Timed(StoredArtifact, 0)>>},
     abort \in BOOLEAN}

NextLostUpdate ==
  \E p \in Writers :
    \/ Call_Batch(p, LostUpdateCalls)
    \/ PutArtifacts_Check(p)
    \/ PutArtifacts_Item(p)
    \/ TxCommit(p)

SpecLostUpdate == InitBatch /\ [][NextLostUpdate]_vars

\* The call of p has ended; it had the option and updated artifact 1 from
\* the update time 0.
UpdatedFromZero(p) ==
  /\ proc[p].op = "PutArtifacts" /\ proc[p].pc = "done"
  /\ proc[p].req.abort_if_latest_updated_time_changed
  /\ \E k \in 1..Len(proc[p].req.artifacts) :
       proc[p].req.artifacts[k].id = {1} /\ proc[p].req.artifacts[k].time = 0

\* C38: no lost update.  Of two PutArtifacts calls with
\* abort_if_latest_updated_time_changed that update the same stored
\* artifact and both carry the last_update_time_since_epoch stored before
\* either ran, at most one returns OK, however their steps interleave.
NoLostUpdate ==
  \A p, q \in Writers :
    (p # q /\ UpdatedFromZero(p) /\ UpdatedFromZero(q))
      => ~(proc[p].status = "OK" /\ proc[q].status = "OK")

----------------------------------------------------------------------------
(* Concurrent widening of the stored artifact type "T", which has the      *)
(* property "u" of kind INT: every call gives can_add_fields.              *)

Pws == [n \in {"w"} |-> "STRING"]

Px == [n \in {"x"} |-> "INT"]

WidenCalls ==
  {PutTypeRequest("PutArtifactType", Type("T", "", props, ""), TRUE, TRUE) :
     props \in {Pw, Pws, Px, Puw, Pui, NoProperties}}
  \cup {PutTypeRequest("PutArtifactType", Type("T", "", props, ""), TRUE, FALSE) :
          props \in {[n \in {"u", "w"} |-> "INT"], [n \in {"u", "x"} |-> "INT"]}}

NextWiden ==
  \E p \in Writers :
    \/ Call_PutType(p, WidenCalls)
    \/ UT_Find(p)
    \/ UT_Update(p)
    \/ TxCommit(p)

SpecWiden == InitUnset /\ [][NextWiden]_vars

============================================================================
